---- MODULE Spec2Model ----
(***************************************************************************)
(* Model of the SPI computation run of mnd_spi_app: the process entry      *)
(* point (vypocet.main), the spi context manager (__init__, __exit__,      *)
(* protokoluj) and the orchestrator spi.vypocet that walks the step        *)
(* registry, gates every step by a dotted key path of the run              *)
(* configuration, invokes the step's method and interprets its result.     *)
(*                                                                         *)
(* The step methods themselves are the environment of the orchestrator:    *)
(* an invoked step returns some Python value or raises.                    *)
(*                                                                         *)
(* Six parts of the program are modelled on their own, each with its own   *)
(* specification over its own variables:                                   *)
(*   SpecCheck   islh_schema.check_range_or_zero applied to a value;       *)
(*   SpecImport  the step spi.import_csv_dat: the loop over the configured *)
(*               files, and for a file with a schema the defaults, the     *)
(*               type conversion, the validation and the write;            *)
(*   SpecModel   ModelVysek.zpracuj_data with fituj_funkci and             *)
(*               srovnej_funkce, and what spi.vyskovy_model does with its  *)
(*               outcome for one group;                                    *)
(*   SpecLhp     the step spi.inicializace_lhp run once and again against  *)
(*               one database and one UID configuration file;              *)
(*   SpecDat     the step spi.import_dat: the deletions, the referential   *)
(*               checks and the writes of IP, VZ and PNO;                  *)
(*   SpecVm      the step spi.vyskovy_model run once and again: what it    *)
(*               writes to dsuhul.mod_vys and dsuhul.mod_vys_pred.         *)
(* Lines written only under self.debug and the matplotlib calls are left   *)
(* out; the numerical optimizer is an environment that converges with some *)
(* scores or does not converge.                                            *)
(***************************************************************************)
EXTENDS Integers, Sequences, FiniteSets, Bags, TLC

\* Number of step descriptors in the registry (kroky_config['kroky']).
NKroku == 3

\* Longest dotted konfig_klic (number of segments) and nesting of the
\* gating part of the run configuration.
MaxHloubka == 2

(***************************************************************************)
(* Python values as they come out of yaml.safe_load and of step methods.   *)
(***************************************************************************)
PyBool(b) == [typ |-> "bool", b |-> b]
PyInt(n) == [typ |-> "int", n |-> n]
PyNone == [typ |-> "None"]
PyStr == [typ |-> "str"]
PyDict(d) == [typ |-> "dict", d |-> d]
EmptyDict == PyDict(<<>>)

\* Python truth value of an object (`if konfig_hodnota:`).
Truthy(v) ==
    CASE v.typ = "bool" -> v.b
      [] v.typ = "int" -> v.n # 0
      [] v.typ = "dict" -> DOMAIN v.d # {}
      [] v.typ = "str" -> TRUE
      [] OTHER -> FALSE

\* Python `vysledek == n` for an integer literal n.
PyEqInt(v, n) ==
    CASE v.typ = "int" -> v.n = n
      [] v.typ = "bool" -> (IF v.b THEN 1 ELSE 0) = n
      [] OTHER -> FALSE

\* obj.get(klic, default): raises AttributeError unless obj is a mapping.
\* The result is [chyba, hodnota]; chyba = "" when nothing was raised.
PyGet(obj, klic, default) ==
    IF obj.typ # "dict"
    THEN [chyba |-> "AttributeError", hodnota |-> obj]
    ELSE [chyba |-> "",
          hodnota |-> IF klic \in DOMAIN obj.d THEN obj.d[klic] ELSE default]

\* obj[klic]: KeyError when the key is missing from the mapping.
PyIndex(obj, klic) ==
    IF obj.typ # "dict"
    THEN [chyba |-> "TypeError", hodnota |-> obj]
    ELSE IF klic \in DOMAIN obj.d
         THEN [chyba |-> "", hodnota |-> obj.d[klic]]
         ELSE [chyba |-> "KeyError", hodnota |-> obj]

(***************************************************************************)
(* Inputs of a run: the step registry and the configuration files.         *)
(***************************************************************************)
\* Key names of the gating part of the configuration, one per nesting level.
KlicNazvy == <<"import_dat", "ip", "provadet", "detail", "extra">>

Skalary == {PyBool(TRUE), PyBool(FALSE), PyNone}

\* Configuration values nested at most h mappings deep below this one.
RECURSIVE Hodnoty(_, _)
Hodnoty(uroven, h) ==
    Skalary \cup {EmptyDict} \cup
    (IF h = 0 THEN {}
     ELSE {PyDict(KlicNazvy[uroven] :> v) : v \in Hodnoty(uroven + 1, h - 1)})

\* The dotted key paths a step descriptor may carry (already split on '.').
Cesty == {SubSeq(KlicNazvy, 1, n) : n \in 1..MaxHloubka}

\* The possible 'nastaveni_vypoctu' parts of the run configuration.
Nastaveni ==
    {<<>>,
     "nastaveni_vypoctu" :> PyNone,
     "nastaveni_vypoctu" :> EmptyDict,
     "nastaveni_vypoctu" :> PyDict("ignorovat_varovani" :> PyBool(FALSE)),
     "nastaveni_vypoctu" :> PyDict("ignorovat_varovani" :> PyBool(TRUE))}

\* The run configurations <lhc>_vypocet.yaml considered.
VypocetConfigy ==
    {PyDict(g.d @@ n) : g \in {x \in Hodnoty(1, MaxHloubka) : x.typ = "dict"},
                        n \in Nastaveni}

\* The configurations <lhc>.yaml considered: with and without 'nazev_firmy'.
LhcConfigy == {PyDict("nazev_firmy" :> PyStr), EmptyDict}

\* The step registries vypocet_kroky.yaml considered.
KrokyConfigy == [1..NKroku -> [konfig_klic : Cesty]]

\* What an invoked step method does: return a value, or raise.
NavratoveHodnoty == {PyInt(0), PyInt(1), PyInt(10), PyInt(20), PyNone}
Vystupy ==
    {[druh |-> "return", hodnota |-> v] : v \in NavratoveHodnoty}
    \cup {[druh |-> "raise", hodnota |-> PyNone]}

(***************************************************************************)
(* State.                                                                  *)
(***************************************************************************)
VARIABLES
    kroky_config,   \* self.kroky_config['kroky']
    vypocet_config, \* self.vypocet_config
    lhc_config,     \* self.lhc_config
    pc,             \* position of the process
    krok,           \* index of the step the loop of vypocet is at
    protokol,       \* lines of the Run Protocol file, in order
    protokol_file,  \* "open" or "closed"
    spojeni,        \* connection attributes of the object: name -> state
    pg_engine,      \* "active" or "disposed"
    volano,         \* invocations of step methods so far: [krok, vystup]
    navrat,         \* what vypocet returned (a sequence of at most one value)
    vyjimka,        \* exception propagating out of vypocet ("" when none)
    exit_status     \* exit status of the process (a sequence of at most one)

\* islh_schema.check_range_or_zero: one application of the check.
VARIABLES
    min_val,        \* lower limit the check was built with
    max_val,        \* upper limit the check was built with
    x,              \* the value the check is applied to
    check_vysledek  \* what the check returned (a sequence of at most one)

\* spi.import_csv_dat: one invocation of the step.
VARIABLES
    imp_data,       \* import_csv.data in its order: [soubor, provadet, existuje]
    imp_i,          \* position of the loop over importovane_soubory
    imp_vysledek,   \* the local `vysledek`
    imp_navrat,     \* what the step returned (a sequence of at most one)
    tabulky,        \* input tables written to the database so far
    imp_soubor,     \* the file the loop body has just run for ("" at the
                    \* head of the loop)
    df_nacteny,     \* its frame as read_csv gave it
    df_validace,    \* its frame as handed to schema.validate
    failure_cases,  \* e.failure_cases of its validation
    df_ulozeny      \* its frame as written by to_sql

\* spi_model_vysek.ModelVysek.zpracuj_data: one call, and what
\* spi.vyskovy_model does with its outcome.
VARIABLES
    mv_df,              \* the frame df: [sloupce, radky]
    mv_nazev_funkce,    \* the argument nazev_funkce
    mv_zobrazit_grafy,  \* the argument zobrazit_grafy
    mv_pc,              \* position inside zpracuj_data / srovnej_funkce
    mv_k,               \* position of the loop over nazvy_funkci
    vysledky,           \* the list `vysledky` of srovnej_funkce
    nejlepsi,           \* nejlepsi_funkce, _parametry, _r2, _rmse
    volani_fitu,        \* the calls of fituj_funkci so far
    mv_vystup,          \* what zpracuj_data returned (None until then)
    mv_vyjimka,         \* the exception that left zpracuj_data ("" if none)
    vm_stav             \* how vyskovy_model went on: "", "raise",
                        \* "return_20" or "ulozeno"

\* spi.inicializace_lhp run against one database, once and again.
VARIABLES
    lhp_config,     \* the parts of lhc_config the step reads
    uid_soubor,     \* the UID configuration file ./konfigurace/<lhc>_uid.yaml
    uid_config,     \* self.uid_config
    zapis_yaml,     \* the local zapis_yaml
    db,             \* the rows of the tables the step writes to
    lhp_pc,         \* the block of the step that runs next
    lhp_beh,        \* which run of the program this is
    lhp_konce       \* how every run so far ended, with the database then

\* spi.import_dat: one invocation against a store that may hold the rows
\* of an earlier import.
VARIABLES
    dat_config,     \* vypocet_config['import_dat'] as the step reads it
    dat_vstup,      \* the staging tables of IP, VZ and PNO
    dat_plochy,     \* the plots (locality, plot number) the store holds
    dat_db,         \* the plots updated and the rows of dsuhul.vz, .pno
    dat_db_pred,    \* dat_db as it was when the step was invoked
    dat_pc,         \* the block of the step that runs next
    dat_navrat      \* what the step returned (<<>> until then)

\* spi.vyskovy_model run against one database, once and again.
VARIABLES
    vm_config,      \* the height source, repeated inventory, table keys
    vm_vstup,       \* the staging tables of imported model heights
    vm_skupiny,     \* the species groups with their trees
    vm_db,          \* dsuhul.mod_vys and dsuhul.mod_vys_pred, as bags
    vm_pc,          \* the part of the step that runs next
    vm_inv,         \* position of the loop over inventarizace
    vm_rt,          \* position of the loop over df_dr['rt']
    vm_beh,         \* which run of the step this is
    vm_konce        \* how every run so far ended, with the tables then

beh_vars == <<kroky_config, vypocet_config, lhc_config, pc, krok, protokol,
              protokol_file, spojeni, pg_engine, volano, navrat, vyjimka,
              exit_status>>

check_vars == <<min_val, max_val, x, check_vysledek>>

import_vars == <<imp_data, imp_i, imp_vysledek, imp_navrat, tabulky, imp_soubor,
                 df_nacteny, df_validace, failure_cases, df_ulozeny>>

model_vars == <<mv_df, mv_nazev_funkce, mv_zobrazit_grafy, mv_pc, mv_k,
                vysledky, nejlepsi, volani_fitu, mv_vystup, mv_vyjimka,
                vm_stav>>

lhp_vars == <<lhp_config, uid_soubor, uid_config, zapis_yaml, db, lhp_pc,
              lhp_beh, lhp_konce>>

dat_vars == <<dat_config, dat_vstup, dat_plochy, dat_db, dat_db_pred, dat_pc,
              dat_navrat>>

vm_vars == <<vm_config, vm_vstup, vm_skupiny, vm_db, vm_pc, vm_inv, vm_rt,
             vm_beh, vm_konce>>

dalsi_vars == <<lhp_vars, dat_vars, vm_vars>>

vars == <<beh_vars, check_vars, import_vars, model_vars, dalsi_vars>>

\* The parts of the state a run of vypocet.main leaves alone, and the value
\* they have while that part of the program is not in use.
mimo_beh == <<check_vars, import_vars, model_vars, dalsi_vars>>

CheckKlid ==
    /\ min_val = 0
    /\ max_val = 0
    /\ x = 0
    /\ check_vysledek = <<>>

ImportKlid ==
    /\ imp_data = <<>>
    /\ imp_i = 0
    /\ imp_vysledek = 0
    /\ imp_navrat = <<>>
    /\ tabulky = {}
    /\ imp_soubor = ""
    /\ df_nacteny = <<>>
    /\ df_validace = <<>>
    /\ failure_cases = <<>>
    /\ df_ulozeny = <<>>

LhpKlid ==
    /\ lhp_config = <<>>
    /\ uid_soubor = <<>>
    /\ uid_config = <<>>
    /\ zapis_yaml = FALSE
    /\ db = <<>>
    /\ lhp_pc = "necinny"
    /\ lhp_beh = 0
    /\ lhp_konce = <<>>

DatKlid ==
    /\ dat_config = <<>>
    /\ dat_vstup = <<>>
    /\ dat_plochy = {}
    /\ dat_db = <<>>
    /\ dat_db_pred = <<>>
    /\ dat_pc = "necinny"
    /\ dat_navrat = <<>>

VmKlid ==
    /\ vm_config = <<>>
    /\ vm_vstup = <<>>
    /\ vm_skupiny = <<>>
    /\ vm_db = <<>>
    /\ vm_pc = "necinny"
    /\ vm_inv = 0
    /\ vm_rt = 0
    /\ vm_beh = 0
    /\ vm_konce = <<>>

DalsiKlid == LhpKlid /\ DatKlid /\ VmKlid

ModelKlid ==
    /\ mv_df = [sloupce |-> {}, radky |-> <<>>]
    /\ mv_nazev_funkce = ""
    /\ mv_zobrazit_grafy = FALSE
    /\ mv_pc = "necinny"
    /\ mv_k = 0
    /\ vysledky = <<>>
    /\ nejlepsi = [funkce |-> <<>>, parametry |-> <<>>, r2 |-> <<>>,
                   rmse |-> <<>>]
    /\ volani_fitu = <<>>
    /\ mv_vystup = <<>>
    /\ mv_vyjimka = ""
    /\ vm_stav = ""

vstupy == <<kroky_config, vypocet_config, lhc_config>>

\* A line of the Run Protocol: the kind of message and the step whose
\* 'zprava' it carries (0 when it names no step).
Zprava(typ, k) == [typ |-> typ, krok |-> k]

\* spi.protokoluj: append the stamped message to the file and flush.
Protokoluj(p, zprava) == Append(p, zprava)

\* spi.__init__: configuration loaded, engine created, connection opened,
\* protocol file opened (truncated) and the first message written.
Init ==
    /\ kroky_config \in KrokyConfigy
    /\ vypocet_config \in VypocetConfigy
    /\ lhc_config \in LhcConfigy
    /\ pc = "vypocet"
    /\ krok = 0
    /\ protokol = Protokoluj(<<>>, Zprava("zahajeni_noveho_vypoctu", 0))
    /\ protokol_file = "open"
    /\ spojeni = ("pg_conn" :> "open")
    /\ pg_engine = "active"
    /\ volano = <<>>
    /\ navrat = <<>>
    /\ vyjimka = ""
    /\ exit_status = <<>>
    /\ CheckKlid
    /\ ImportKlid
    /\ ModelKlid
    /\ DalsiKlid

(***************************************************************************)
(* spi.vypocet                                                             *)
(***************************************************************************)
\* The walk of a dotted key path into the configuration:
\*   for klic in krok['konfig_klic'].split('.'):
\*       konfig_hodnota = konfig_hodnota.get(klic, {})
RECURSIVE Projdi(_, _)
Projdi(konfig_hodnota, klice) ==
    IF klice = <<>>
    THEN [chyba |-> "", hodnota |-> konfig_hodnota]
    ELSE LET g == PyGet(konfig_hodnota, Head(klice), EmptyDict)
         IN  IF g.chyba # "" THEN g ELSE Projdi(g.hodnota, Tail(klice))

\* The gating value of step k, or the error its resolution raises.
KonfigHodnota(k) == Projdi(vypocet_config, kroky_config[k].konfig_klic)

\* self.vypocet_config['nastaveni_vypoctu'].get('ignorovat_varovani', 0)
IgnorovatVarovani ==
    LET s == PyIndex(vypocet_config, "nastaveni_vypoctu")
    IN  IF s.chyba # "" THEN s
        ELSE PyGet(s.hodnota, "ignorovat_varovani", PyInt(0))

\* The branches of the interpretation of a step result: the lines written,
\* and how the loop goes on ("pokracuj": next step, "return": vypocet
\* returns navrat, "raise": chyba propagates out of vypocet).
VysledekDokoncena(k) ==
    [zpravy |-> <<Zprava("dokoncena", k)>>,
     dale |-> "pokracuj", navrat |-> <<>>, chyba |-> ""]

VysledekVarovaniIgnorovano(k) ==
    [zpravy |-> <<Zprava("dokoncena_s_varovanim", k),
                  Zprava("varovani_ignorovano", 0)>>,
     dale |-> "pokracuj", navrat |-> <<>>, chyba |-> ""]

VysledekVarovaniUkonceno(k) ==
    [zpravy |-> <<Zprava("dokoncena_s_varovanim", k),
                  Zprava("zpracovani_ukonceno", 0)>>,
     dale |-> "return", navrat |-> <<PyInt(1)>>, chyba |-> ""]

\* Reading the flag raised, after "dokoncena s varovanim" was written.
VysledekVarovaniChybaNastaveni(k, chyba) ==
    [zpravy |-> <<Zprava("dokoncena_s_varovanim", k)>>,
     dale |-> "raise", navrat |-> <<>>, chyba |-> chyba]

VysledekVarovani(k) ==
    LET ign == IgnorovatVarovani
    IN  IF ign.chyba # "" THEN VysledekVarovaniChybaNastaveni(k, ign.chyba)
        ELSE IF Truthy(ign.hodnota) THEN VysledekVarovaniIgnorovano(k)
        ELSE VysledekVarovaniUkonceno(k)

VysledekChyba(k) ==
    [zpravy |-> <<Zprava("ukonceno_s_chybou", k),
                  Zprava("zpracovani_ukonceno", 0)>>,
     dale |-> "return", navrat |-> <<PyInt(1)>>, chyba |-> ""]

\* Variant: the warning branch never reads the flag and always goes on.
ZpracovaniVysledku_VarovaniVzdyIgnorovano(k, vysledek) ==
    IF PyEqInt(vysledek, 0) THEN VysledekDokoncena(k)
    ELSE IF PyEqInt(vysledek, 10) THEN VysledekVarovaniIgnorovano(k)
    ELSE VysledekChyba(k)

\* Variant: every code from 10 up is taken for a warning.
ZpracovaniVysledku_20JakoVarovani(k, vysledek) ==
    IF PyEqInt(vysledek, 0) THEN VysledekDokoncena(k)
    ELSE IF vysledek.typ = "int" /\ vysledek.n >= 10 THEN VysledekVarovani(k)
    ELSE VysledekChyba(k)

\* Variant: the error branch writes its lines but does not return.
ZpracovaniVysledku_ChybaPokracuje(k, vysledek) ==
    IF PyEqInt(vysledek, 0) THEN VysledekDokoncena(k)
    ELSE IF PyEqInt(vysledek, 10) THEN VysledekVarovani(k)
    ELSE [VysledekChyba(k) EXCEPT !.dale = "pokracuj", !.navrat = <<>>]

\* The interpretation of the value an invoked step returned:
\* if vysledek == 0 / elif vysledek == 10 / else.
ZpracovaniVysledku(k, vysledek) ==
    IF PyEqInt(vysledek, 0) THEN VysledekDokoncena(k)
    ELSE IF PyEqInt(vysledek, 10) THEN VysledekVarovani(k)
    ELSE VysledekChyba(k)

\* Variant: no except clause, the fault of the step leaves vypocet.
ZpracovaniVyjimky_Propusti(k) ==
    [zpravy |-> <<>>, dale |-> "raise", navrat |-> <<>>, chyba |-> "Exception"]

\* What vypocet does when the step method raised: the except clause.
ZpracovaniVyjimky(k) ==
    [zpravy |-> <<Zprava("chyba_pri_volani_metody_se_stopou", k)>>,
     dale |-> "return", navrat |-> <<PyInt(20)>>, chyba |-> ""]

\* Entry of vypocet: the opening message, which reads lhc_config['nazev_firmy'].
VypocetZahajeni ==
    /\ pc = "vypocet"
    /\ krok = 0
    /\ LET r == PyIndex(lhc_config, "nazev_firmy")
       IN  IF r.chyba # ""
           THEN /\ vyjimka' = r.chyba
                /\ pc' = "exit"
                /\ UNCHANGED <<krok, protokol>>
           ELSE /\ protokol' = Protokoluj(protokol, Zprava("zahajeni_vypoctu", 0))
                /\ krok' = 1
                /\ UNCHANGED <<vyjimka, pc>>
    /\ UNCHANGED <<mimo_beh, vstupy, protokol_file, spojeni, pg_engine, volano, navrat,
                   exit_status>>

\* Loop body, resolution of the key path raises (outside the try block).
KrokChybaKlice ==
    /\ pc = "vypocet"
    /\ krok \in 1..NKroku
    /\ KonfigHodnota(krok).chyba # ""
    /\ vyjimka' = KonfigHodnota(krok).chyba
    /\ pc' = "exit"
    /\ UNCHANGED <<mimo_beh, vstupy, krok, protokol, protokol_file, spojeni, pg_engine,
                   volano, navrat, exit_status>>

\* Variant: the start marker is written before the gating value is tested.
KrokNeprovaden_SeStartem ==
    /\ pc = "vypocet"
    /\ krok \in 1..NKroku
    /\ KonfigHodnota(krok).chyba = ""
    /\ ~Truthy(KonfigHodnota(krok).hodnota)
    /\ protokol' = Protokoluj(Protokoluj(protokol, Zprava("start", krok)),
                              Zprava("nebylo_provadeno", krok))
    /\ krok' = krok + 1
    /\ UNCHANGED <<mimo_beh, vstupy, pc, protokol_file, spojeni, pg_engine, volano,
                   navrat, vyjimka, exit_status>>

\* Loop body, the gating value is falsy: the else branch.
KrokNeprovaden ==
    /\ pc = "vypocet"
    /\ krok \in 1..NKroku
    /\ KonfigHodnota(krok).chyba = ""
    /\ ~Truthy(KonfigHodnota(krok).hodnota)
    /\ protokol' = Protokoluj(protokol, Zprava("nebylo_provadeno", krok))
    /\ krok' = krok + 1
    /\ UNCHANGED <<mimo_beh, vstupy, pc, protokol_file, spojeni, pg_engine, volano,
                   navrat, vyjimka, exit_status>>

\* Loop body, the gating value is truthy: start marker, invocation of the
\* step method inside try/except, interpretation of the result.
KrokProveden ==
    /\ pc = "vypocet"
    /\ krok \in 1..NKroku
    /\ KonfigHodnota(krok).chyba = ""
    /\ Truthy(KonfigHodnota(krok).hodnota)
    /\ \E vystup \in Vystupy :
         LET z == IF vystup.druh = "raise"
                  THEN ZpracovaniVyjimky(krok)
                  ELSE ZpracovaniVysledku(krok, vystup.hodnota)
         IN  /\ volano' = Append(volano, [krok |-> krok, vystup |-> vystup])
             /\ protokol' = Protokoluj(protokol, Zprava("start", krok)) \o z.zpravy
             /\ krok' = IF z.dale = "pokracuj" THEN krok + 1 ELSE krok
             /\ pc' = IF z.dale = "pokracuj" THEN pc ELSE "exit"
             /\ navrat' = z.navrat
             /\ vyjimka' = z.chyba
    /\ UNCHANGED <<mimo_beh, vstupy, protokol_file, spojeni, pg_engine, exit_status>>

\* End of the loop: closing message, vypocet falls off its end (None).
VypocetUkonceni ==
    /\ pc = "vypocet"
    /\ krok = NKroku + 1
    /\ protokol' = Protokoluj(protokol, Zprava("ukonceni_vypoctu", 0))
    /\ navrat' = <<PyNone>>
    /\ pc' = "exit"
    /\ UNCHANGED <<mimo_beh, vstupy, krok, protokol_file, spojeni, pg_engine, volano,
                   vyjimka, exit_status>>

(***************************************************************************)
(* spi.__exit__ and the end of the process                                 *)
(***************************************************************************)
\* The attributes __init__ sets on the object.
Atributy == {"lhc", "debug", "lhc_config", "vypocet_config", "uid_config",
             "kroky_config", "pg_engine", "pg_conn", "protokol_path",
             "protokol_file"}

HasAttr(nazev) == nazev \in Atributy

\* Variant: the closing line is written before the line of the fault.
ExitZpravy_UzavreniPrvni(exc) ==
    <<Zprava("uzavreni_protokolu", 0)>>
    \o (IF exc # "" THEN <<Zprava("vypocet_ukoncen_chybou", 0)>> ELSE <<>>)

\* Variant: the line of the fault is not written at all.
ExitZpravy_BezChyby(exc) ==
    <<Zprava("uzavreni_protokolu", 0)>>

\* The lines __exit__ writes before it closes the protocol file.
ExitZpravy(exc) ==
    (IF exc # "" THEN <<Zprava("vypocet_ukoncen_chybou", 0)>> ELSE <<>>)
    \o <<Zprava("uzavreni_protokolu", 0)>>

\* spi.__exit__(exc_type, exc_value, traceback); it returns None, so an
\* exception that entered it goes on propagating.
Exit ==
    /\ pc = "exit"
    /\ IF HasAttr("protokol_file")
       THEN /\ protokol' = protokol \o ExitZpravy(vyjimka)
            /\ protokol_file' = "closed"
       ELSE UNCHANGED <<protokol, protokol_file>>
    /\ spojeni' = IF HasAttr("conn")
                  THEN [spojeni EXCEPT !["conn"] = "closed"]
                  ELSE spojeni
    /\ pg_engine' = IF HasAttr("pg_engine") THEN "disposed" ELSE pg_engine
    /\ pc' = "sys_exit"
    /\ UNCHANGED <<mimo_beh, vstupy, krok, volano, navrat, vyjimka, exit_status>>

\* What main() returns when the with block ended without an exception:
\* the value of vypocet_spi.vypocet() is dropped, main has no return.
MainNavrat(navrat_vypoctu) == PyNone

\* sys.exit(arg): None is status 0, an integer is that status.
SysExit(arg) ==
    CASE arg.typ = "None" -> 0
      [] arg.typ = "int" -> arg.n
      [] OTHER -> 1

\* sys.exit(main()); an exception that left main ends the process with 1.
Konec ==
    /\ pc = "sys_exit"
    /\ exit_status' = IF vyjimka # ""
                      THEN <<1>>
                      ELSE <<SysExit(MainNavrat(navrat[1]))>>
    /\ pc' = "konec"
    /\ UNCHANGED <<mimo_beh, vstupy, krok, protokol, protokol_file, spojeni, pg_engine,
                   volano, navrat, vyjimka>>

Next ==
    \/ VypocetZahajeni
    \/ KrokChybaKlice
    \/ KrokNeprovaden
    \/ KrokProveden
    \/ VypocetUkonceni
    \/ Exit
    \/ Konec

Spec == Init /\ [][Next]_vars

\* The state of the run while another part of the program is looked at on
\* its own: no registry, no process.
BehKlid ==
    /\ kroky_config = <<>>
    /\ vypocet_config = EmptyDict
    /\ lhc_config = EmptyDict
    /\ pc = "necinny"
    /\ krok = 0
    /\ protokol = <<>>
    /\ protokol_file = "closed"
    /\ spojeni = <<>>
    /\ pg_engine = "disposed"
    /\ volano = <<>>
    /\ navrat = <<>>
    /\ vyjimka = ""
    /\ exit_status = <<>>

\* The state of the run while one step method is looked at on its own: the
\* protocol is open and holds what the method writes.
BehVKroku ==
    /\ kroky_config = <<>>
    /\ vypocet_config = EmptyDict
    /\ lhc_config = EmptyDict
    /\ pc = "krok"
    /\ krok = 0
    /\ protokol = <<>>
    /\ protokol_file = "open"
    /\ spojeni = ("pg_conn" :> "open")
    /\ pg_engine = "active"
    /\ volano = <<>>
    /\ navrat = <<>>
    /\ vyjimka = ""
    /\ exit_status = <<>>

(***************************************************************************)
(* islh_schema.check_range_or_zero                                         *)
(***************************************************************************)
\* Limits and values the check is tried with: the limits from -MaxMez to
\* MaxMez (lower above upper included), the values one further out.
MaxMez == 2

Meze == (0 - MaxMez)..MaxMez

HodnotyX == (0 - MaxMez - 1)..(MaxMez + 1)

\* Variant: zero is accepted only when it lies inside the range.
CheckRangeOrZero_BezNuly(min, max, v) ==
    (v >= min) /\ (v <= max)

\* The element check of pa.Check(lambda x: (x == 0) |
\*                                ((x >= min_val) & (x <= max_val))).
CheckRangeOrZero(min, max, v) ==
    (v = 0) \/ ((v >= min) /\ (v <= max))

InitCheck ==
    /\ BehKlid
    /\ ImportKlid
    /\ ModelKlid
    /\ DalsiKlid
    /\ min_val \in Meze
    /\ max_val \in Meze
    /\ x \in HodnotyX
    /\ check_vysledek = <<>>

\* The check built with (min_val, max_val) is applied to x.
CheckVolani ==
    /\ check_vysledek = <<>>
    /\ check_vysledek' = <<CheckRangeOrZero(min_val, max_val, x)>>
    /\ UNCHANGED <<beh_vars, import_vars, model_vars, dalsi_vars, min_val,
                   max_val, x>>

NextCheck == CheckVolani

SpecCheck == InitCheck /\ [][NextCheck]_vars

(***************************************************************************)
(* Data frames: a frame is a sequence of rows, a row maps the column names *)
(* to cells.  A cell is missing (NaN), a number or a string.               *)
(***************************************************************************)
NaN == [typ |-> "nan"]
Cislo(n) == [typ |-> "num", n |-> n]
Retezec(s) == [typ |-> "str", s |-> s]

\* Series.fillna(value) on one cell.
FillNa(v, value) == IF v = NaN THEN value ELSE v

\* Strings pd.to_numeric parses as numbers.
CiselneRetezce == ("100" :> 100) @@ ("999" :> 999)

\* pd.to_numeric(..., errors='coerce') on one cell: what does not parse as
\* a number becomes NaN.
ToNumericCoerce(v) ==
    CASE v.typ = "num" -> v
      [] v.typ = "str" -> IF v.s \in DOMAIN CiselneRetezce
                          THEN Cislo(CiselneRetezce[v.s])
                          ELSE NaN
      [] OTHER -> NaN

\* Series.astype(str) on one cell: a missing value becomes the string 'nan'.
AsTypeStr(v) ==
    CASE v.typ = "str" -> v
      [] v.typ = "num" -> Retezec(ToString(v.n))
      [] OTHER -> Retezec("nan")

(***************************************************************************)
(* islh_schema: column rules of the minimal schemas.  Of every kind of     *)
(* rule the schemas hold (Int, Float, String; in_range, range-or-zero,     *)
(* isin; nullable or not; with a default or without) one column is kept.   *)
(***************************************************************************)
BezDefault == <<>>

Column(dtype, check, nullable, default) ==
    [dtype |-> dtype, check |-> check, nullable |-> nullable,
     default |-> default]

InRange(min, max) == [druh |-> "in_range", min |-> min, max |-> max]
RangeOrZero(min, max) == [druh |-> "range_or_zero", min |-> min, max |-> max]
IsIn(hodnoty) == [druh |-> "isin", hodnoty |-> hodnoty]

\* ip_minimal: 'cil_zasoba', 'status'.
IpMinimal ==
    [sloupce |-> <<"cil_zasoba", "status">>,
     pravidla |->
        [cil_zasoba |-> Column("Int", InRange(0, 274), FALSE, <<Cislo(0)>>),
         status |-> Column("String", IsIn({"100", "200"}), FALSE,
                           <<Retezec("")>>)]]

\* vz_minimal: 'plocha', 'tloustka_km'.
VzMinimal ==
    [sloupce |-> <<"plocha", "tloustka_km">>,
     pravidla |->
        [plocha |-> Column("Int", InRange(1, 3), FALSE, BezDefault),
         tloustka_km |-> Column("Float", RangeOrZero(7, 800), TRUE,
                                BezDefault)]]

SchemaDefinitions == ("ip" :> IpMinimal) @@ ("vz" :> VzMinimal)

\* get_schema(soubor, 'minimal'): a sequence of at most one schema (None
\* when the file has no schema).
GetSchema(soubor) ==
    IF soubor \in DOMAIN SchemaDefinitions
    THEN <<SchemaDefinitions[soubor]>>
    ELSE <<>>

(***************************************************************************)
(* Input files.                                                            *)
(***************************************************************************)
\* Files import_csv.data can name: two with a schema, one without.
Soubory == {"ip", "vz", "jiny"}

\* Longest frame a file holds.
MaxRadku == 2

\* The cells a column of an input file can hold after read_csv.
HodnotyCSV ==
    [cil_zasoba |-> {NaN, Cislo(7), Cislo(300)},
     status |-> {NaN, Retezec("100"), Retezec("999")},
     plocha |-> {NaN, Cislo(2), Cislo(5)},
     tloustka_km |-> {NaN, Cislo(0), Cislo(5), Cislo(120), Retezec("x")},
     hodnota |-> {NaN, Cislo(1)}]

SloupceCSV(soubor) ==
    CASE soubor = "ip" -> {"cil_zasoba", "status"}
      [] soubor = "vz" -> {"plocha", "tloustka_km"}
      [] OTHER -> {"hodnota"}

VsechnyBunky == UNION {HodnotyCSV[c] : c \in DOMAIN HodnotyCSV}

RadkyCSV(soubor) ==
    {r \in [SloupceCSV(soubor) -> VsechnyBunky] :
        \A c \in SloupceCSV(soubor) : r[c] \in HodnotyCSV[c]}

\* pd.read_csv(import_file, ...): the frames a file can hold.
FramyCSV(soubor) ==
    UNION {[1..n -> RadkyCSV(soubor)] : n \in 0..MaxRadku}

\* import_csv.data of the run configuration in its order, every file at
\* most once (the keys of a mapping), with the flag of the file and with
\* whether the file is on the disk.
BezOpakovani(s) ==
    \A i, j \in DOMAIN s : i # j => s[i].soubor # s[j].soubor

\* Whether a file is on the disk is only looked at for an enabled file.
Polozky ==
    {p \in [soubor : Soubory, provadet : BOOLEAN, existuje : BOOLEAN] :
        ~p.provadet => p.existuje}

ImportData ==
    {s \in UNION {[1..n -> Polozky] : n \in 0..Cardinality(Soubory)} :
        BezOpakovani(s)}

(***************************************************************************)
(* spi.import_csv_dat: what it does with the frame of one file             *)
(***************************************************************************)
\* A line of the protocol written by import_csv_dat.
ZpravaImportu(typ, soubor, pocet) ==
    [typ |-> typ, soubor |-> soubor, pocet |-> pocet]

\* Variant: no default is filled in.
DoplnVychozi_Nic(df, schema) == df

\* for column_name, column_schema in schema.columns.items():
\*     if ... column_schema.default is not None:
\*         df[column_name] = df[column_name].fillna(column_schema.default)
DoplnVychozi(df, schema) ==
    [r \in DOMAIN df |->
        [c \in DOMAIN df[r] |->
            IF c \in DOMAIN schema.pravidla
               /\ schema.pravidla[c].default # BezDefault
            THEN FillNa(df[r][c], schema.pravidla[c].default[1])
            ELSE df[r][c]]]

\* The conversion of one cell by the declared type of its column:
\*   String: .astype(str)
\*   Int:    pd.to_numeric(.., errors='coerce').fillna(0).astype(int)
\*   Float:  pd.to_numeric(.., errors='coerce').fillna(0.0)
PrevedBunku(dtype, v) ==
    CASE dtype = "String" -> AsTypeStr(v)
      [] dtype \in {"Int", "Float"} -> FillNa(ToNumericCoerce(v), Cislo(0))
      [] OTHER -> v

\* The conversion loop over the columns of the schema.  None of the
\* conversions above raises on the cells of HodnotyCSV, so the except
\* branch writes no line.
PrevedTypy(df, schema) ==
    [r \in DOMAIN df |->
        [c \in DOMAIN df[r] |->
            IF c \in DOMAIN schema.pravidla
            THEN PrevedBunku(schema.pravidla[c].dtype, df[r][c])
            ELSE df[r][c]]]

\* Whether a cell passes the check of its column.
SplnujeCheck(check, v) ==
    CASE check.druh = "in_range" ->
            v.typ = "num" /\ check.min <= v.n /\ v.n <= check.max
      [] check.druh = "range_or_zero" ->
            v.typ = "num" /\ CheckRangeOrZero(check.min, check.max, v.n)
      [] check.druh = "isin" ->
            v.typ = "str" /\ v.s \in check.hodnoty
      [] OTHER -> TRUE

\* The check a cell fails ("" when it fails none): a missing value fails
\* only a column that is not nullable, and no check is run on it.
SelhaniBunky(pravidlo, v) ==
    IF v = NaN
    THEN IF pravidlo.nullable THEN "" ELSE "not_nullable"
    ELSE IF SplnujeCheck(pravidlo.check, v) THEN "" ELSE pravidlo.check.druh

\* The failure cases of one column, row by row.
SelhaniSloupce(df, c, pravidlo) ==
    SelectSeq([r \in DOMAIN df |->
                  [sloupec |-> c, index |-> r,
                   check |-> SelhaniBunky(pravidlo, df[r][c]),
                   failure_case |-> df[r][c]]],
              LAMBDA f : f.check # "")

RECURSIVE SelhaniSloupcu(_, _, _)
SelhaniSloupcu(df, schema, sloupce) ==
    IF sloupce = <<>>
    THEN <<>>
    ELSE SelhaniSloupce(df, Head(sloupce), schema.pravidla[Head(sloupce)])
         \o SelhaniSloupcu(df, schema, Tail(sloupce))

\* Variant: validation stops at the first failure case.
Validate_PrvniChyba(df, schema) ==
    LET vsechny == SelhaniSloupcu(df, schema, schema.sloupce)
    IN  IF vsechny = <<>> THEN <<>> ELSE <<Head(vsechny)>>

\* schema.validate(df, lazy=True): the failure cases of SchemaErrors (none
\* when the frame is valid); every column and every row is looked at.
Validate(df, schema) == SelhaniSloupcu(df, schema, schema.sloupce)

\* Variant: the result follows the file validated last.
VysledekPoValidaci_Posledni(failure, vysledek) ==
    IF failure # <<>> THEN 10 ELSE 0

\* Variant: failure cases end the step with 20.
VysledekPoValidaci_Chyba(failure, vysledek) ==
    IF failure # <<>> THEN 20 ELSE vysledek

\* except pa.errors.SchemaErrors: ... vysledek = 10
VysledekPoValidaci(failure, vysledek) ==
    IF failure # <<>> THEN 10 ELSE vysledek

\* The lines written around schema.validate.
ZpravyValidace(soubor, failure) ==
    <<ZpravaImportu("validace_dat", soubor, 0)>>
    \o (IF failure = <<>>
        THEN <<ZpravaImportu("validovano", soubor, 0)>>
        ELSE <<ZpravaImportu("kontrolovano", soubor, 0),
               ZpravaImportu("chyby_ve_validaci", soubor, Len(failure)),
               ZpravaImportu("vypis_chyb", soubor, Len(failure))>>)

(***************************************************************************)
(* spi.import_csv_dat: the step                                            *)
(***************************************************************************)
beh_bez_protokolu ==
    <<kroky_config, vypocet_config, lhc_config, pc, krok, protokol_file,
      spojeni, pg_engine, volano, navrat, vyjimka, exit_status>>

mimo_import == <<beh_bez_protokolu, check_vars, model_vars, dalsi_vars>>

InitImport ==
    /\ BehVKroku
    /\ CheckKlid
    /\ ModelKlid
    /\ DalsiKlid
    /\ imp_data \in ImportData
    /\ imp_i = 1
    /\ imp_vysledek = 0
    /\ imp_navrat = <<>>
    /\ tabulky = {}
    /\ imp_soubor = ""
    /\ df_nacteny = <<>>
    /\ df_validace = <<>>
    /\ failure_cases = <<>>
    /\ df_ulozeny = <<>>

\* The loop is at the head of its body for the file imp_data[imp_i].
UvnitrSmycky ==
    /\ imp_navrat = <<>>
    /\ imp_data # <<>>
    /\ imp_i \in DOMAIN imp_data
    /\ imp_soubor = ""

\* if not importovane_soubory: one line, return(vysledek).
ImportZadneSoubory ==
    /\ imp_navrat = <<>>
    /\ imp_data = <<>>
    /\ protokol' = Append(protokol, ZpravaImportu("zadne_soubory", "", 0))
    /\ imp_navrat' = <<imp_vysledek>>
    /\ UNCHANGED <<mimo_import, imp_data, imp_i, imp_vysledek, tabulky,
                   imp_soubor, df_nacteny, df_validace, failure_cases,
                   df_ulozeny>>

\* The flag of the file is falsy: the file is only logged as ignored.
SouborIgnorovan ==
    /\ UvnitrSmycky
    /\ ~imp_data[imp_i].provadet
    /\ protokol' = Append(protokol,
                      ZpravaImportu("ignorovan", imp_data[imp_i].soubor, 0))
    /\ imp_soubor' = imp_data[imp_i].soubor
    /\ UNCHANGED <<mimo_import, imp_data, imp_i, imp_vysledek, imp_navrat,
                   tabulky, df_nacteny, df_validace, failure_cases,
                   df_ulozeny>>

\* The file is enabled and is not on the disk: return(20).
SouborNeexistuje ==
    /\ UvnitrSmycky
    /\ imp_data[imp_i].provadet
    /\ ~imp_data[imp_i].existuje
    /\ protokol' = protokol
          \o <<ZpravaImportu("soubor", imp_data[imp_i].soubor, 0),
               ZpravaImportu("neexistuje", imp_data[imp_i].soubor, 0)>>
    /\ imp_soubor' = imp_data[imp_i].soubor
    /\ imp_navrat' = <<20>>
    /\ UNCHANGED <<mimo_import, imp_data, imp_i, imp_vysledek, tabulky,
                   df_nacteny, df_validace, failure_cases, df_ulozeny>>

\* The file is enabled, is on the disk and has no schema: it is read and
\* written to the database as it is.
SouborBezSchematu ==
    /\ UvnitrSmycky
    /\ imp_data[imp_i].provadet
    /\ imp_data[imp_i].existuje
    /\ GetSchema(imp_data[imp_i].soubor) = <<>>
    /\ \E df \in FramyCSV(imp_data[imp_i].soubor) :
         LET soubor == imp_data[imp_i].soubor
         IN  /\ df_nacteny' = df
             /\ df_validace' = <<>>
             /\ failure_cases' = <<>>
             /\ df_ulozeny' = df
             /\ protokol' = protokol
                   \o <<ZpravaImportu("soubor", soubor, 0),
                        ZpravaImportu("soubor_cesta", soubor, 0),
                        ZpravaImportu("nacteno", soubor, 0),
                        ZpravaImportu("bez_schematu", soubor, 0),
                        ZpravaImportu("ulozeno", soubor, 0)>>
             /\ tabulky' = tabulky \cup {soubor}
             /\ imp_soubor' = soubor
    /\ UNCHANGED <<mimo_import, imp_data, imp_i, imp_vysledek, imp_navrat>>

\* The file is enabled, is on the disk and has a schema: defaults are
\* filled in, the columns are converted, the frame is validated and then
\* written to the database.
SouborSeSchematem ==
    /\ UvnitrSmycky
    /\ imp_data[imp_i].provadet
    /\ imp_data[imp_i].existuje
    /\ GetSchema(imp_data[imp_i].soubor) # <<>>
    /\ \E df \in FramyCSV(imp_data[imp_i].soubor) :
         LET soubor == imp_data[imp_i].soubor
             schema == GetSchema(soubor)[1]
             doplneny == DoplnVychozi(df, schema)
             prevedeny == PrevedTypy(doplneny, schema)
             failure == Validate(prevedeny, schema)
         IN  /\ df_nacteny' = df
             /\ df_validace' = prevedeny
             /\ failure_cases' = failure
             /\ df_ulozeny' = prevedeny
             /\ imp_vysledek' = VysledekPoValidaci(failure, imp_vysledek)
             /\ protokol' = protokol
                   \o <<ZpravaImportu("soubor", soubor, 0),
                        ZpravaImportu("soubor_cesta", soubor, 0),
                        ZpravaImportu("nacteno", soubor, 0)>>
                   \o ZpravyValidace(soubor, failure)
                   \o <<ZpravaImportu("ulozeno", soubor, 0)>>
             /\ tabulky' = tabulky \cup {soubor}
             /\ imp_soubor' = soubor
    /\ UNCHANGED <<mimo_import, imp_data, imp_i, imp_navrat>>

\* The body has run and importovane_soubory holds another file: the loop
\* goes on to it; the frame and the failure cases of the file before are
\* not used again.
DalsiSoubor ==
    /\ imp_navrat = <<>>
    /\ imp_soubor # ""
    /\ imp_i < Len(imp_data)
    /\ imp_i' = imp_i + 1
    /\ imp_soubor' = ""
    /\ df_nacteny' = <<>>
    /\ df_validace' = <<>>
    /\ failure_cases' = <<>>
    /\ df_ulozeny' = <<>>
    /\ UNCHANGED <<mimo_import, protokol, imp_data, imp_vysledek, imp_navrat,
                   tabulky>>

\* The body has run for the last file: return(vysledek).
ImportKonec ==
    /\ imp_navrat = <<>>
    /\ imp_soubor # ""
    /\ imp_i = Len(imp_data)
    /\ imp_navrat' = <<imp_vysledek>>
    /\ UNCHANGED <<mimo_import, protokol, imp_data, imp_i, imp_vysledek,
                   tabulky, imp_soubor, df_nacteny, df_validace,
                   failure_cases, df_ulozeny>>

NextImport ==
    \/ ImportZadneSoubory
    \/ SouborIgnorovan
    \/ SouborNeexistuje
    \/ SouborBezSchematu
    \/ SouborSeSchematem
    \/ DalsiSoubor
    \/ ImportKonec

SpecImport == InitImport /\ [][NextImport]_vars

(***************************************************************************)
(* spi_model_vysek.ModelVysek                                              *)
(***************************************************************************)
\* An optional Python value: None, or a value.
Zadny == <<>>
Nejaky(v) == <<v>>

\* self.funkce: the registered height functions in the order of the dict.
NazvyFunkci == <<"michajlov", "korf", "naslund", "petersen">>

Funkce == {NazvyFunkci[i] : i \in DOMAIN NazvyFunkci}

\* Longest frame handed to zpracuj_data.
MaxStromu == 3

\* Largest R2 a fit reports; the values stand for the order of the real
\* coefficients of determination.
MaxR2 == 1

R2Hodnoty == 0..MaxR2

RmseHodnoty == {1, 2}

\* The rows of a frame with the diameter column: measured diameter and
\* height, diameter without height, diameter with height 0, no diameter.
Stromy ==
    {[tloustka_km |-> Cislo(20), mvyska |-> Cislo(15)],
     [tloustka_km |-> Cislo(30), mvyska |-> NaN],
     [tloustka_km |-> Cislo(25), mvyska |-> Cislo(0)],
     [tloustka_km |-> NaN, mvyska |-> Cislo(15)]}

\* The rows of a frame that has no diameter column.
StromyBezDbh == {[mvyska |-> Cislo(15)]}

\* The frames zpracuj_data is called with: columns and rows.
Framy ==
    {[sloupce |-> {"tloustka_km", "mvyska"}, radky |-> r] :
        r \in UNION {[1..n -> Stromy] : n \in 0..MaxStromu}}
    \cup
    {[sloupce |-> {"mvyska"}, radky |-> r] :
        r \in UNION {[1..n -> StromyBezDbh] : n \in 0..MaxStromu}}

\* Python None as the value of nazev_funkce: modeluj_vysky passes its
\* argument funkce on, and the default of funkce is None.
NazevNone == "<None>"

\* nazev_funkce: none chosen (''), a registered name, an unregistered
\* name, None.
NazvyVstup == {"", "korf", "jina", NazevNone}

\* What the optimizer of curve_fit does with a sample it accepts: it
\* raises RuntimeError (no convergence within maxfev), or it converges and
\* the fit is scored.
Optimalizace ==
    {[konverguje |-> FALSE]}
    \cup {[konverguje |-> TRUE, r2 |-> r, rmse |-> e] :
             r \in R2Hodnoty, e \in RmseHodnoty}

\* A line of the protocol written by ModelVysek.
ZpravaModelu(typ, funkce, pocet) ==
    [typ |-> typ, funkce |-> funkce, pocet |-> pocet]

\* The parameters curve_fit found for a function, and the value of the
\* function at a diameter with them.
Parametry(funkce) == [pro |-> funkce]

ModelovaVyska(funkce, parametry, dbh) ==
    [typ |-> "model", fce |-> funkce, parametry |-> parametry, dbh |-> dbh]

\* mask_kompletni: diameter present, height present and above 0.
MaskKompletni(radek) ==
    /\ radek["tloustka_km"] # NaN
    /\ radek["mvyska"] # NaN
    /\ radek["mvyska"].n > 0

\* Variant: a model height is written only for the rows the fit used.
MaskMaDbh_Kompletni(radek) == MaskKompletni(radek)

\* mask_ma_dbh: diameter present.
MaskMaDbh(radek) == radek["tloustka_km"] # NaN

\* dbh_hodnoty and vyska_hodnoty: the columns of df_kompletni.
Vzorek(df) ==
    LET kompletni == SelectSeq(df.radky, MaskKompletni)
    IN  [dbh |-> [i \in DOMAIN kompletni |-> kompletni[i]["tloustka_km"].n],
         vyska |-> [i \in DOMAIN kompletni |-> kompletni[i]["mvyska"].n]]

\* Variant: a RuntimeError of the optimizer is not caught.
FitujFunkci_Propusti(vzorek, nazev, zobrazit_graf, opt) ==
    CASE nazev \notin Funkce ->
            [chyba |-> "TypeError", navrat |-> Zadny,
             zpravy |-> <<ZpravaModelu("neznama_funkce", nazev, 0)>>]
      [] Len(vzorek.vyska) = 0 ->
            [chyba |-> "ValueError", navrat |-> Zadny, zpravy |-> <<>>]
      [] Len(vzorek.vyska) < 2 ->
            [chyba |-> "TypeError", navrat |-> Zadny, zpravy |-> <<>>]
      [] ~opt.konverguje ->
            [chyba |-> "RuntimeError", navrat |-> Zadny, zpravy |-> <<>>]
      [] zobrazit_graf ->
            [chyba |-> "TypeError", navrat |-> Zadny, zpravy |-> <<>>]
      [] OTHER ->
            [chyba |-> "",
             navrat |-> Nejaky([parametry |-> Parametry(nazev),
                                r2 |-> opt.r2, rmse |-> opt.rmse]),
             zpravy |-> <<>>]

\* fituj_funkci(dbh_hodnoty, vyska_hodnoty, nazev_funkce, zobrazit_graf):
\*   - an unregistered name is logged by _prirad_funkci and curve_fit is
\*     called with None for the function: TypeError;
\*   - curve_fit raises ValueError for an empty sample and TypeError for a
\*     sample shorter than the two parameters;
\*   - a RuntimeError of the optimizer is caught and logged, the result is
\*     (None, None, None);
\*   - with zobrazit_graf, _vykresli_graf is called with one argument more
\*     than it takes: TypeError;
\*   - otherwise (parametry, r2, rmse).
\* The result is [chyba, navrat, zpravy]: chyba is the exception that
\* leaves the method ("" when none), navrat is None or the triple.
FitujFunkci(vzorek, nazev, zobrazit_graf, opt) ==
    CASE nazev \notin Funkce ->
            [chyba |-> "TypeError", navrat |-> Zadny,
             zpravy |-> <<ZpravaModelu("neznama_funkce", nazev, 0)>>]
      [] Len(vzorek.vyska) = 0 ->
            [chyba |-> "ValueError", navrat |-> Zadny, zpravy |-> <<>>]
      [] Len(vzorek.vyska) < 2 ->
            [chyba |-> "TypeError", navrat |-> Zadny, zpravy |-> <<>>]
      [] ~opt.konverguje ->
            [chyba |-> "", navrat |-> Zadny,
             zpravy |-> <<ZpravaModelu("nepovedlo_se", nazev, 0)>>]
      [] zobrazit_graf ->
            [chyba |-> "TypeError", navrat |-> Zadny, zpravy |-> <<>>]
      [] OTHER ->
            [chyba |-> "",
             navrat |-> Nejaky([parametry |-> Parametry(nazev),
                                r2 |-> opt.r2, rmse |-> opt.rmse]),
             zpravy |-> <<>>]

\* Variant: a later candidate with the same R2 replaces the retained one.
JeLepsi_Neostre(r2, nejlepsi_r2) ==
    nejlepsi_r2 = Zadny \/ r2 >= nejlepsi_r2[1]

\* if r2 > nejlepsi_r2, with nejlepsi_r2 = -inf before the first success.
JeLepsi(r2, nejlepsi_r2) ==
    nejlepsi_r2 = Zadny \/ r2 > nejlepsi_r2[1]

\* self.nejlepsi_* after __init__, and the locals of srovnej_funkce before
\* its loop.
NejlepsiZadny ==
    [funkce |-> Zadny, parametry |-> Zadny, r2 |-> Zadny, rmse |-> Zadny]

\* The frame with the model height written for the rows of mask_ma_dbh;
\* the other rows of the new column stay missing.
ZapisModVys(df, funkce, parametry) ==
    [sloupce |-> df.sloupce \cup {"mod_vys"},
     radky |->
        [r \in DOMAIN df.radky |->
            [c \in df.sloupce \cup {"mod_vys"} |->
                IF c # "mod_vys"
                THEN df.radky[r][c]
                ELSE IF MaskMaDbh(df.radky[r])
                     THEN ModelovaVyska(funkce, parametry,
                                        df.radky[r]["tloustka_km"].n)
                     ELSE NaN]]]

\* The end of zpracuj_data once a function and its parameters are chosen
\* (each of them None or a value):
\*   funkce_obj = self.funkce[pouzita_funkce]      KeyError for None
\*   if sum(mask_ma_dbh) > 0: ... funkce_obj['fce'](..., *pouzite_parametry)
\*                                                 TypeError for None
\*   return df_vysledek, info
DokonciZpracovani(df, pouzita_funkce, pouzite_parametry, r2, rmse) ==
    CASE pouzita_funkce = Zadny \/ pouzita_funkce[1] \notin Funkce ->
            [chyba |-> "KeyError", navrat |-> Zadny]
      [] (\E r \in DOMAIN df.radky : MaskMaDbh(df.radky[r]))
         /\ pouzite_parametry = Zadny ->
            [chyba |-> "TypeError", navrat |-> Zadny]
      [] OTHER ->
            [chyba |-> "",
             navrat |->
                Nejaky([df_vysledek |->
                           IF \E r \in DOMAIN df.radky : MaskMaDbh(df.radky[r])
                           THEN Nejaky(ZapisModVys(df, pouzita_funkce[1],
                                                   pouzite_parametry[1]))
                           ELSE Nejaky(df),
                        info |-> Nejaky([funkce |-> pouzita_funkce[1],
                                         parametry |-> pouzite_parametry[1],
                                         R2 |-> r2, RMSE |-> rmse])])]

\* The lines zpracuj_data writes before it fits.
ZpravyVzorku(n) ==
    (IF n < 10
     THEN <<ZpravaModelu("varovani_malo_stromu", "", n),
            ZpravaModelu("varovani_nespolehliva_regrese", "", 0)>>
     ELSE <<>>)
    \o <<ZpravaModelu("vytvareni_modelu", "", n)>>

mimo_model == <<beh_bez_protokolu, check_vars, import_vars, dalsi_vars>>

InitModel ==
    /\ BehVKroku
    /\ CheckKlid
    /\ ImportKlid
    /\ DalsiKlid
    /\ mv_df \in Framy
    /\ mv_nazev_funkce \in NazvyVstup
    /\ mv_zobrazit_grafy \in BOOLEAN
    /\ mv_pc = "zpracuj_data"
    /\ mv_k = 0
    /\ vysledky = <<>>
    /\ nejlepsi = NejlepsiZadny
    /\ volani_fitu = <<>>
    /\ mv_vystup = Zadny
    /\ mv_vyjimka = ""
    /\ vm_stav = ""

\* zpracuj_data with a frame that has no diameter column: one line,
\* return None, None.
ZpracujDataBezSloupce ==
    /\ mv_pc = "zpracuj_data"
    /\ "tloustka_km" \notin mv_df.sloupce
    /\ protokol' = Append(protokol, ZpravaModelu("sloupec_nenalezen", "", 0))
    /\ mv_vystup' = Nejaky([df_vysledek |-> Zadny, info |-> Zadny])
    /\ mv_pc' = "hotovo"
    /\ UNCHANGED <<mimo_model, mv_df, mv_nazev_funkce, mv_zobrazit_grafy,
                   mv_k, vysledky, nejlepsi, volani_fitu, mv_vyjimka, vm_stav>>

\* zpracuj_data with nazev_funkce != '': the function is fitted by
\* fituj_funkci and used, whatever the fit returned.
ZpracujDataExplicitni ==
    /\ mv_pc = "zpracuj_data"
    /\ "tloustka_km" \in mv_df.sloupce
    /\ mv_nazev_funkce # ""
    /\ \E opt \in Optimalizace :
         LET vzorek == Vzorek(mv_df)
             fit == FitujFunkci(vzorek, mv_nazev_funkce, mv_zobrazit_grafy,
                                opt)
             konec == DokonciZpracovani(
                          mv_df, Nejaky(mv_nazev_funkce),
                          IF fit.navrat = Zadny THEN Zadny
                          ELSE Nejaky(fit.navrat[1].parametry),
                          IF fit.navrat = Zadny THEN Zadny
                          ELSE Nejaky(fit.navrat[1].r2),
                          IF fit.navrat = Zadny THEN Zadny
                          ELSE Nejaky(fit.navrat[1].rmse))
         IN  /\ protokol' = protokol \o ZpravyVzorku(Len(vzorek.vyska))
                               \o fit.zpravy
             /\ volani_fitu' = Append(volani_fitu,
                                  [funkce |-> mv_nazev_funkce,
                                   vzorek |-> vzorek, opt |-> opt,
                                   chyba |-> fit.chyba,
                                   navrat |-> fit.navrat])
             /\ IF fit.chyba # ""
                THEN /\ mv_vyjimka' = fit.chyba
                     /\ UNCHANGED <<mv_vystup, nejlepsi>>
                ELSE /\ nejlepsi' =
                          [nejlepsi EXCEPT
                             !.r2 = IF fit.navrat = Zadny THEN Zadny
                                    ELSE Nejaky(fit.navrat[1].r2),
                             !.rmse = IF fit.navrat = Zadny THEN Zadny
                                      ELSE Nejaky(fit.navrat[1].rmse)]
                     /\ mv_vyjimka' = konec.chyba
                     /\ mv_vystup' = konec.navrat
    /\ mv_pc' = "hotovo"
    /\ UNCHANGED <<mimo_model, mv_df, mv_nazev_funkce, mv_zobrazit_grafy,
                   mv_k, vysledky, vm_stav>>

\* zpracuj_data with nazev_funkce == '' enters srovnej_funkce: the locals
\* are reset; min(dbh_hodnoty) raises ValueError for an empty sample.
SrovnejFunkceZacatek ==
    /\ mv_pc = "zpracuj_data"
    /\ "tloustka_km" \in mv_df.sloupce
    /\ mv_nazev_funkce = ""
    /\ protokol' = protokol \o ZpravyVzorku(Len(Vzorek(mv_df).vyska))
    /\ IF Len(Vzorek(mv_df).dbh) = 0
       THEN /\ mv_vyjimka' = "ValueError"
            /\ mv_pc' = "hotovo"
            /\ UNCHANGED mv_k
       ELSE /\ mv_k' = 1
            /\ mv_pc' = "srovnej_funkce"
            /\ UNCHANGED mv_vyjimka
    /\ vysledky' = <<>>
    /\ nejlepsi' = NejlepsiZadny
    /\ UNCHANGED <<mimo_model, mv_df, mv_nazev_funkce, mv_zobrazit_grafy,
                   volani_fitu, mv_vystup, vm_stav>>

\* One pass of the loop of srovnej_funkce: the candidate is fitted without
\* a plot; a fit that returned values is appended to vysledky and replaces
\* the retained one when its R2 is greater.
SrovnejFunkceKandidat ==
    /\ mv_pc = "srovnej_funkce"
    /\ mv_k \in DOMAIN NazvyFunkci
    /\ \E opt \in Optimalizace :
         LET nazev == NazvyFunkci[mv_k]
             vzorek == Vzorek(mv_df)
             fit == FitujFunkci(vzorek, nazev, FALSE, opt)
         IN  /\ protokol' = protokol \o fit.zpravy
             /\ volani_fitu' = Append(volani_fitu,
                                  [funkce |-> nazev, vzorek |-> vzorek,
                                   opt |-> opt, chyba |-> fit.chyba,
                                   navrat |-> fit.navrat])
             /\ IF fit.chyba # ""
                THEN /\ mv_vyjimka' = fit.chyba
                     /\ mv_pc' = "hotovo"
                     /\ UNCHANGED <<mv_k, vysledky, nejlepsi>>
                ELSE /\ mv_k' = mv_k + 1
                     /\ UNCHANGED <<mv_pc, mv_vyjimka>>
                     /\ IF fit.navrat # Zadny
                        THEN /\ vysledky' =
                                  Append(vysledky,
                                         [funkce |-> nazev,
                                          parametry |-> fit.navrat[1].parametry,
                                          R2 |-> fit.navrat[1].r2,
                                          RMSE |-> fit.navrat[1].rmse])
                             /\ nejlepsi' =
                                  IF JeLepsi(fit.navrat[1].r2, nejlepsi.r2)
                                  THEN [funkce |-> Nejaky(nazev),
                                        parametry |->
                                           Nejaky(fit.navrat[1].parametry),
                                        r2 |-> Nejaky(fit.navrat[1].r2),
                                        rmse |-> Nejaky(fit.navrat[1].rmse)]
                                  ELSE nejlepsi
                        ELSE UNCHANGED <<vysledky, nejlepsi>>
    /\ UNCHANGED <<mimo_model, mv_df, mv_nazev_funkce, mv_zobrazit_grafy,
                   mv_vystup, vm_stav>>

\* srovnej_funkce has tried every candidate and stored self.nejlepsi_*;
\* zpracuj_data goes on with self.nejlepsi_funkce and
\* self.nejlepsi_parametry.
SrovnejFunkceKonec ==
    /\ mv_pc = "srovnej_funkce"
    /\ mv_k = Len(NazvyFunkci) + 1
    /\ LET konec == DokonciZpracovani(mv_df, nejlepsi.funkce,
                                      nejlepsi.parametry, nejlepsi.r2,
                                      nejlepsi.rmse)
       IN  /\ mv_vyjimka' = konec.chyba
           /\ mv_vystup' = konec.navrat
    /\ mv_pc' = "hotovo"
    /\ UNCHANGED <<mimo_model, protokol, mv_df, mv_nazev_funkce,
                   mv_zobrazit_grafy, mv_k, vysledky, nejlepsi, volani_fitu,
                   vm_stav>>

\* The frames vyskovy_model reads for a group: the query keeps only rows
\* with tloustka_km > 0, and zpracuj_data is called for len(df_vys) > 0.
FrameZVyskovehoModelu(df) ==
    /\ "tloustka_km" \in df.sloupce
    /\ Len(df.radky) > 0
    /\ \A r \in DOMAIN df.radky :
          /\ df.radky[r]["tloustka_km"] # NaN
          /\ df.radky[r]["tloustka_km"].n > 0

\* spi.vyskovy_model after model.zpracuj_data for one group: an exception
\* of zpracuj_data leaves the step; model_info None is logged and the step
\* returns 20; otherwise the frame is written to the database and the loop
\* over the groups goes on.
VyskovyModelSkupina ==
    /\ mv_pc = "hotovo"
    /\ FrameZVyskovehoModelu(mv_df)
    /\ IF mv_vyjimka # ""
       THEN /\ vm_stav' = "raise"
            /\ UNCHANGED protokol
       ELSE IF mv_vystup[1].info = Zadny
            THEN /\ vm_stav' = "return_20"
                 /\ protokol' = Append(protokol,
                                   ZpravaModelu("zadna_vhodna_funkce", "", 0))
            ELSE /\ vm_stav' = "ulozeno"
                 /\ protokol' = protokol
                       \o <<ZpravaModelu("parametry_vypoctu",
                                         mv_vystup[1].info[1].funkce, 0),
                            ZpravaModelu("ulozeno_do_databaze", "", 0)>>
    /\ mv_pc' = "vyskovy_model"
    /\ UNCHANGED <<mimo_model, mv_df, mv_nazev_funkce, mv_zobrazit_grafy,
                   mv_k, vysledky, nejlepsi, volani_fitu, mv_vystup,
                   mv_vyjimka>>

NextModel ==
    \/ ZpracujDataBezSloupce
    \/ ZpracujDataExplicitni
    \/ SrovnejFunkceZacatek
    \/ SrovnejFunkceKandidat
    \/ SrovnejFunkceKonec
    \/ VyskovyModelSkupina

SpecModel == InitModel /\ [][NextModel]_vars

(***************************************************************************)
(* spi.inicializace_lhp                                                    *)
(***************************************************************************)
\* How many times the step is run, one process after the other, against
\* the same database and the same configuration files.
NBehu == 2

\* The keys of the UID configuration file.
UidKlice == {"uid_firm", "uid_lhc", "uid_lhp"}

\* The tables of the database the step writes to.
TabulkyLhp ==
    {"firm", "lhc", "lhp", "pobl_typy", "pobl", "list_ktlt_types", "ktlt",
     "list_kil_types", "kil", "kip", "vs", "ik", "vs_spi"}

PrazdnaDb == [t \in TabulkyLhp |-> {}]

\* lhc_config['hos']['skupiny'], ['tlt'], ['kil'], ['vs'] and ['ik'] as far
\* as the step reads them.
HosSkupiny == {"h1"}

TltMoznosti == {[prvni |-> 10, posledni |-> 30, interval |-> 10]}

KilKody == {"k1", "k2"}

PlochyMoznosti == {{}, {[plocha |-> 1, podplochy |-> {1}]}}

Strata == {"s1"}

IkKody == {"i1", "i2"}

RuzneKody(s) ==
    \A i, j \in DOMAIN s : i # j => s[i].kod # s[j].kod

KilData ==
    {s \in UNION {[1..n -> [kod : KilKody, plochy : PlochyMoznosti]] :
                     n \in 0..Cardinality(KilKody)} : RuzneKody(s)}

\* A campaign: with a truthy 'vs_all' its list 'vs' is not read.
Kampane ==
    {k \in [kod : IkKody, vs_all : BOOLEAN, vs : SUBSET Strata] :
        k.vs_all => k.vs = {}}

IkData ==
    {s \in UNION {[1..n -> Kampane] : n \in 0..Cardinality(IkKody)} :
        RuzneKody(s)}

LhpConfigy ==
    [hos : SUBSET HosSkupiny, tlt : TltMoznosti, kil : KilData,
     vs : SUBSET Strata, ik : IkData]

\* range(prvni, posledni, interval)
Range(prvni, posledni, interval) ==
    {i \in prvni..(posledni - 1) : (i - prvni) % interval = 0}

\* Variant: the UID file is never consulted.
UidZnamy_Nikdy(cfg, klic) == FALSE

\* self.uid_config.get(klic, '') is truthy.
UidZnamy(cfg, klic) == klic \in DOMAIN cfg

\* RETURNING uid of an INSERT: a UID no row of the table has.
NoveUid(tabulka) == Cardinality(tabulka) + 1

\* self.uid_config[klic] = str(new_uid)
NastavUid(cfg, klic, uid) == (klic :> uid) @@ cfg

\* INSERT ... ON CONFLICT (natural key) DO UPDATE / DO NOTHING of the rows
\* `radky`, each row standing for its natural key.
Upsert(tabulka, radky) == tabulka \cup radky

mimo_lhp ==
    <<beh_vars, check_vars, import_vars, model_vars, dat_vars, vm_vars>>

InitLhp ==
    /\ BehVKroku
    /\ CheckKlid
    /\ ImportKlid
    /\ ModelKlid
    /\ DatKlid
    /\ VmKlid
    /\ lhp_config \in LhpConfigy
    /\ uid_soubor = <<>>
    /\ uid_config = <<>>
    /\ zapis_yaml = FALSE
    /\ db = PrazdnaDb
    /\ lhp_pc = "firma"
    /\ lhp_beh = 1
    /\ lhp_konce = <<>>

\* The step leaves by an exception: the transaction at hand is rolled back
\* and nothing after it runs.
LhpRaise ==
    /\ lhp_pc' = "konec"
    /\ lhp_konce' = Append(lhp_konce, [jak |-> "raise", db |-> db])
    /\ UNCHANGED <<mimo_lhp, lhp_config, uid_soubor, uid_config, zapis_yaml,
                   db, lhp_beh>>

\* One of the blocks "# Firma", "# LHC", "# LHP": UPDATE of the row whose
\* UID the configuration holds, or INSERT ... RETURNING uid and the new UID
\* kept in self.uid_config with zapis_yaml = True.
LhpBlokUid(misto, klic, tabulka, dalsi) ==
    /\ lhp_pc = misto
    /\ IF UidZnamy(uid_config, klic)
       THEN UNCHANGED <<db, uid_config, zapis_yaml>>
       ELSE LET new_uid == NoveUid(db[tabulka])
            IN  /\ db' = [db EXCEPT ![tabulka] = @ \cup {new_uid}]
                /\ uid_config' = NastavUid(uid_config, klic, new_uid)
                /\ zapis_yaml' = TRUE
    /\ lhp_pc' = dalsi
    /\ UNCHANGED <<mimo_lhp, lhp_config, uid_soubor, lhp_beh, lhp_konce>>

LhpFirma == LhpBlokUid("firma", "uid_firm", "firm", "lhc")

LhpLhc == LhpBlokUid("lhc", "uid_lhc", "lhc", "lhp")

LhpLhp == LhpBlokUid("lhp", "uid_lhp", "lhp", "yaml")

\* if zapis_yaml: yaml.safe_dump(self.uid_config, file)
LhpZapisYaml ==
    /\ lhp_pc = "yaml"
    /\ uid_soubor' = IF zapis_yaml THEN uid_config ELSE uid_soubor
    /\ lhp_pc' = "hos"
    /\ UNCHANGED <<mimo_lhp, lhp_config, uid_config, zapis_yaml, db, lhp_beh,
                   lhp_konce>>

\* "# Hospodářské skupiny": the sub-area type HOS and its groups.
LhpHos ==
    /\ lhp_pc = "hos"
    /\ LET firm == uid_config["uid_firm"]
           lhc == uid_config["uid_lhc"]
           lhp == uid_config["uid_lhp"]
           uid_tpobl == <<"HOS", lhp, lhc, firm>>
       IN  db' = [db EXCEPT
                    !["pobl_typy"] = Upsert(@, {uid_tpobl}),
                    !["pobl"] = Upsert(@, {<<key, uid_tpobl>> :
                                              key \in lhp_config.hos})]
    /\ lhp_pc' = "tlt"
    /\ UNCHANGED <<mimo_lhp, lhp_config, uid_soubor, uid_config, zapis_yaml,
                   lhp_beh, lhp_konce>>

\* "# Tloušťkové třídy": the definition TLT and its classes.
LhpTlt ==
    /\ lhp_pc = "tlt"
    /\ LET firm == uid_config["uid_firm"]
           uid_ktlt == <<firm, "TLT">>
           tlt == lhp_config.tlt
       IN  db' = [db EXCEPT
                    !["list_ktlt_types"] = Upsert(@, {uid_ktlt}),
                    !["ktlt"] = Upsert(@, {<<firm, uid_ktlt, i>> :
                                   i \in Range(tlt.prvni, tlt.posledni,
                                               tlt.interval)})]
    /\ lhp_pc' = "kil"
    /\ UNCHANGED <<mimo_lhp, lhp_config, uid_soubor, uid_config, zapis_yaml,
                   lhp_beh, lhp_konce>>

\* "# Konfigurace inventarizačních lokalit": the loop over kil_data holds
\* only the upsert of list_kil_types; `uid_kil = result.scalar()`, the
\* plots and the subplots come after the loop, for the configuration the
\* loop ended with. With no configuration the name `konfigurace` is
\* unbound there.
LhpKil ==
    /\ lhp_pc = "kil"
    /\ lhp_config.kil # <<>>
    /\ LET firm == uid_config["uid_firm"]
           kil_data == lhp_config.kil
           konfigurace == kil_data[Len(kil_data)]
           uid_kil == <<firm, konfigurace.kod>>
       IN  db' = [db EXCEPT
                    !["list_kil_types"] =
                        Upsert(@, {<<firm, kil_data[i].kod>> :
                                      i \in DOMAIN kil_data}),
                    !["kil"] =
                        Upsert(@, {<<firm, uid_kil, p.plocha>> :
                                      p \in konfigurace.plochy}),
                    !["kip"] =
                        Upsert(@, UNION {{<<firm, uid_kil,
                                            <<firm, uid_kil, p.plocha>>, s>> :
                                             s \in p.podplochy} :
                                         p \in konfigurace.plochy})]
    /\ lhp_pc' = "vs"
    /\ UNCHANGED <<mimo_lhp, lhp_config, uid_soubor, uid_config, zapis_yaml,
                   lhp_beh, lhp_konce>>

LhpKilPrazdne ==
    /\ lhp_pc = "kil"
    /\ lhp_config.kil = <<>>
    /\ LhpRaise

\* "# Výběrová strata"
LhpVs ==
    /\ lhp_pc = "vs"
    /\ LET firm == uid_config["uid_firm"]
           lhc == uid_config["uid_lhc"]
       IN  db' = [db EXCEPT
                    !["vs"] = Upsert(@, {<<firm, lhc, key>> :
                                            key \in lhp_config.vs})]
    /\ lhp_pc' = "ik"
    /\ UNCHANGED <<mimo_lhp, lhp_config, uid_soubor, uid_config, zapis_yaml,
                   lhp_beh, lhp_konce>>

\* The row of dsuhul.ik of a campaign.
RadekIk(cfg, kampan) ==
    <<cfg["uid_firm"], cfg["uid_lhc"], cfg["uid_lhp"], kampan.kod>>

\* "# Inventarizační kampaně": the loop over the campaigns holds only the
\* upsert of dsuhul.ik.
LhpIk ==
    /\ lhp_pc = "ik"
    /\ db' = [db EXCEPT
                !["ik"] = Upsert(@, {RadekIk(uid_config, lhp_config.ik[i]) :
                                        i \in DOMAIN lhp_config.ik})]
    /\ lhp_pc' = "vs_spi"
    /\ UNCHANGED <<mimo_lhp, lhp_config, uid_soubor, uid_config, zapis_yaml,
                   lhp_beh, lhp_konce>>

\* A row of dsuhul.vs_spi: a campaign linked to a stratum.
RadekVsSpi(cfg, uid_ik, stratum) ==
    <<cfg["uid_firm"], cfg["uid_lhc"], cfg["uid_lhp"], uid_ik, stratum>>

\* "# vložení vazeb na výběrová strata" comes after the loop over the
\* campaigns, for the campaign the loop ended with: with 'vs_all' one
\* INSERT ... SELECT over the strata of the firm, else one INSERT for each
\* entry of 'vs'. In the else branch `result.scalar()` reads the result of
\* the last upsert of dsuhul.ik once more, inside the transaction of the
\* link: it returns or it raises (scalar_znovu).
LhpVsSpi ==
    /\ lhp_pc = "vs_spi"
    /\ lhp_config.ik # <<>>
    /\ LET kampan == lhp_config.ik[Len(lhp_config.ik)]
           uid_ik == RadekIk(uid_config, kampan)
       IN  IF kampan.vs_all
           THEN /\ db' = [db EXCEPT
                    !["vs_spi"] =
                        Upsert(@, {RadekVsSpi(uid_config, uid_ik, r[3]) :
                                     r \in {v \in db["vs"] :
                                              v[1] = uid_config["uid_firm"]}})]
                /\ lhp_pc' = "navrat"
                /\ UNCHANGED lhp_konce
           ELSE \E scalar_znovu \in {"vraci", "raise"} :
                  IF kampan.vs # {} /\ scalar_znovu = "raise"
                  THEN /\ db' = db
                       /\ lhp_pc' = "konec"
                       /\ lhp_konce' = Append(lhp_konce,
                                          [jak |-> "raise", db |-> db])
                  ELSE /\ db' = [db EXCEPT
                            !["vs_spi"] =
                                Upsert(@, {RadekVsSpi(uid_config, uid_ik, vs) :
                                              vs \in kampan.vs})]
                       /\ lhp_pc' = "navrat"
                       /\ UNCHANGED lhp_konce
    /\ UNCHANGED <<mimo_lhp, lhp_config, uid_soubor, uid_config, zapis_yaml,
                   lhp_beh>>

\* With no campaign the name `kampan` is unbound after the loop.
LhpVsSpiPrazdne ==
    /\ lhp_pc = "vs_spi"
    /\ lhp_config.ik = <<>>
    /\ LhpRaise

\* return(vysledek)
LhpNavrat ==
    /\ lhp_pc = "navrat"
    /\ lhp_pc' = "konec"
    /\ lhp_konce' = Append(lhp_konce, [jak |-> "return", db |-> db])
    /\ UNCHANGED <<mimo_lhp, lhp_config, uid_soubor, uid_config, zapis_yaml,
                   db, lhp_beh>>

\* A statement of the step faults (the database refuses the statement, a
\* key is missing from the configuration, the UID file cannot be written).
LhpVyjimka ==
    /\ lhp_pc \in {"firma", "lhc", "lhp", "yaml", "hos", "tlt", "kil", "vs",
                   "ik", "vs_spi"}
    /\ lhp_pc = "kil" => lhp_config.kil # <<>>
    /\ lhp_pc = "vs_spi" => lhp_config.ik # <<>>
    /\ LhpRaise

\* The program is started again: spi.__init__ loads the UID file.
LhpDalsiBeh ==
    /\ lhp_pc = "konec"
    /\ lhp_beh < NBehu
    /\ lhp_beh' = lhp_beh + 1
    /\ uid_config' = uid_soubor
    /\ zapis_yaml' = FALSE
    /\ lhp_pc' = "firma"
    /\ UNCHANGED <<mimo_lhp, lhp_config, uid_soubor, db, lhp_konce>>

NextLhp ==
    \/ LhpFirma
    \/ LhpLhc
    \/ LhpLhp
    \/ LhpZapisYaml
    \/ LhpHos
    \/ LhpTlt
    \/ LhpKil
    \/ LhpKilPrazdne
    \/ LhpVs
    \/ LhpIk
    \/ LhpVsSpi
    \/ LhpVsSpiPrazdne
    \/ LhpNavrat
    \/ LhpVyjimka
    \/ LhpDalsiBeh

SpecLhp == InitLhp /\ [][NextLhp]_vars

(***************************************************************************)
(* spi.import_dat                                                          *)
(***************************************************************************)
\* Inventory plots as (locality, plot number).
PlochyRef == {<<"L1", 1>>, <<"L1", 2>>}

\* dsuhul.ip joined with dsuhul.il for the LHP: the plots the store holds.
StorePlochy == {{<<"L1", 1>>}, PlochyRef}

\* vypocet_config['import_dat']: the flags 'provadet' of ip, vz and pno and
\* ip.lt_zdroj.
DatConfigy ==
    [ip : BOOLEAN, vz : BOOLEAN, pno : BOOLEAN, lt_zdroj : {"import", "mapa"}]

\* The staging tables vstup.f_<ico>_input_ip, _vz and _pno: the plot every
\* row refers to.
DatVstupy ==
    [ip : SUBSET PlochyRef, vz : SUBSET PlochyRef, pno : SUBSET PlochyRef]

\* A row of dsuhul.vz or dsuhul.pno: the plot it hangs on, the staging row
\* it came from, and whether an earlier import or this one wrote it.
RadekDat(ip, vstup, puvod) == [ip |-> ip, vstup |-> vstup, puvod |-> puvod]

\* What an earlier import has left in dsuhul.vz / dsuhul.pno.
DriveImportovano(plochy) ==
    {{}, {RadekDat(p, p, "drive") : p \in plochy}}

\* A line of the protocol written by import_dat.
ZpravaDat(typ, soubor, pocet) ==
    [typ |-> typ, soubor |-> soubor, pocet |-> pocet]

\* Variant: no row is reported.
Neexistujici_Zadne(radky, plochy) == {}

\* SELECT input.* ... WHERE not exists(... il.lokalita = input.lokalita and
\* ip.plocha = input.plocha): the staging rows whose plot the store lacks.
Neexistujici(radky, plochy) == {r \in radky : r \notin plochy}

\* update dsuhul.ip ... where il.lokalita = input.lokalita and
\* ip.plocha = input.plocha: the plots that are updated.
AktualizovaneIp(radky, plochy) == {p \in plochy : p \in radky}

\* insert into dsuhul.vz / dsuhul.pno ... select ... where
\* il.lokalita = input.lokalita and ip.uid_il = il.uid: one row for every
\* staging row and every plot of its locality.
VlozeneRadky(radky, plochy) ==
    {RadekDat(p, r, "import") : <<p, r>> \in
        {pr \in plochy \X radky : pr[1][1] = pr[2][1]}}

mimo_dat ==
    <<beh_bez_protokolu, check_vars, import_vars, model_vars, lhp_vars,
      vm_vars>>

InitDat ==
    /\ BehVKroku
    /\ CheckKlid
    /\ ImportKlid
    /\ ModelKlid
    /\ LhpKlid
    /\ VmKlid
    /\ dat_config \in DatConfigy
    /\ dat_vstup \in DatVstupy
    /\ dat_plochy \in StorePlochy
    /\ dat_db \in [ip : {{}},
                   vz : DriveImportovano(dat_plochy),
                   pno : DriveImportovano(dat_plochy)]
    /\ dat_db_pred = dat_db
    /\ dat_pc = "mazani_vz"
    /\ dat_navrat = <<>>

\* return(20) after the given lines.
DatReturn20(zpravy) ==
    /\ protokol' = protokol \o zpravy
    /\ dat_pc' = "konec"
    /\ dat_navrat' = <<20>>

\* The step goes on to the block `dalsi` after the given lines.
DatDale(zpravy, dalsi) ==
    /\ protokol' = protokol \o zpravy
    /\ dat_pc' = dalsi
    /\ dat_navrat' = dat_navrat

\* "# nejprve vymazání případných předchozích dat", VZ: delete from
\* dsuhul.vz of the LHP; an exception of the statement is caught and the
\* step returns 20.
DatMazaniVz ==
    /\ dat_pc = "mazani_vz"
    /\ IF ~dat_config.vz
       THEN /\ DatDale(IF dat_config.pno
                       THEN <<ZpravaDat("vymazani", "", 0)>> ELSE <<>>,
                       "mazani_pno")
            /\ dat_db' = dat_db
       ELSE \E selhalo \in BOOLEAN :
              IF selhalo
              THEN /\ DatReturn20(<<ZpravaDat("vymazani", "", 0),
                                    ZpravaDat("vymazani_vz", "vz", 0),
                                    ZpravaDat("chyba_vymazani_vz", "vz", 0)>>)
                   /\ dat_db' = dat_db
              ELSE /\ DatDale(<<ZpravaDat("vymazani", "", 0),
                                ZpravaDat("vymazani_vz", "vz", 0),
                                ZpravaDat("provedeno", "vz", 0)>>, "mazani_pno")
                   /\ dat_db' = [dat_db EXCEPT !.vz = {}]
    /\ UNCHANGED <<mimo_dat, dat_config, dat_vstup, dat_plochy, dat_db_pred>>

\* The same for PNO.
DatMazaniPno ==
    /\ dat_pc = "mazani_pno"
    /\ IF ~dat_config.pno
       THEN /\ DatDale(<<>>, "ip")
            /\ dat_db' = dat_db
       ELSE \E selhalo \in BOOLEAN :
              IF selhalo
              THEN /\ DatReturn20(<<ZpravaDat("vymazani_pno", "pno", 0),
                                    ZpravaDat("chyba_vymazani_pno", "pno", 0)>>)
                   /\ dat_db' = dat_db
              ELSE /\ DatDale(<<ZpravaDat("vymazani_pno", "pno", 0),
                                ZpravaDat("provedeno", "pno", 0)>>, "ip")
                   /\ dat_db' = [dat_db EXCEPT !.pno = {}]
    /\ UNCHANGED <<mimo_dat, dat_config, dat_vstup, dat_plochy, dat_db_pred>>

\* "# Zpracování IP": the check of the references, the update of dsuhul.ip,
\* and after it the assignment of LT from the typology map (with its own
\* check), of JPRL and of the CBP limits; every statement in a try block
\* can raise, which returns 20.
DatIp ==
    /\ dat_pc = "ip"
    /\ IF ~dat_config.ip
       THEN /\ DatDale(<<>>, "vz")
            /\ dat_db' = dat_db
       ELSE LET df == Neexistujici(dat_vstup.ip, dat_plochy)
                hlava == <<ZpravaDat("import", "ip", 0)>>
                po_update == [dat_db EXCEPT
                                !.ip = AktualizovaneIp(dat_vstup.ip,
                                                       dat_plochy)]
            IN  IF df # {}
                THEN /\ DatReturn20(hlava \o
                          <<ZpravaDat("chyba_neexistujici_ip", "ip",
                                      Cardinality(df))>>)
                     /\ dat_db' = dat_db
                ELSE \E prubeh \in {"vyjimka_update", "bez_typologie",
                                    "vyjimka_potom", "dokonceno"} :
                       /\ prubeh = "bez_typologie" =>
                             dat_config.lt_zdroj = "mapa"
                       /\ IF prubeh = "vyjimka_update"
                          THEN /\ DatReturn20(hlava \o
                                    <<ZpravaDat("chyba_import_ip", "ip", 0)>>)
                               /\ dat_db' = dat_db
                          ELSE IF prubeh = "bez_typologie"
                          THEN /\ DatReturn20(hlava \o
                                    <<ZpravaDat("chyba_bez_typologie", "ip", 0)>>)
                               /\ dat_db' = po_update
                          ELSE IF prubeh = "vyjimka_potom"
                          THEN /\ DatReturn20(hlava \o
                                    <<ZpravaDat("chyba_dohledani", "ip", 0)>>)
                               /\ dat_db' = po_update
                          ELSE /\ DatDale(hlava \o
                                    <<ZpravaDat("import_ip_dokoncen", "ip", 0)>>,
                                    "vz")
                               /\ dat_db' = po_update
    /\ UNCHANGED <<mimo_dat, dat_config, dat_vstup, dat_plochy, dat_db_pred>>

\* "# Zpracování VZ" and "# Zpracování PNO": the check of the references,
\* then the insert (and for VZ the update that orders the recomputation).
DatVlozeni(misto, soubor, dalsi) ==
    /\ dat_pc = misto
    /\ IF ~dat_config[soubor]
       THEN /\ DatDale(<<>>, dalsi)
            /\ dat_db' = dat_db
       ELSE LET df == Neexistujici(dat_vstup[soubor], dat_plochy)
                hlava == <<ZpravaDat("import", soubor, 0)>>
                po_insert == [dat_db EXCEPT
                                ![soubor] = @ \cup
                                    VlozeneRadky(dat_vstup[soubor],
                                                 dat_plochy)]
            IN  IF df # {}
                THEN /\ DatReturn20(hlava \o
                          <<ZpravaDat("chyba_neexistujici_ip", soubor,
                                      Cardinality(df))>>)
                     /\ dat_db' = dat_db
                ELSE \E prubeh \in {"vyjimka_insert", "vyjimka_potom",
                                    "dokonceno"} :
                       /\ prubeh = "vyjimka_potom" => soubor = "vz"
                       /\ IF prubeh = "vyjimka_insert"
                          THEN /\ DatReturn20(hlava \o
                                    <<ZpravaDat("chyba_import_vz", soubor, 0)>>)
                               /\ dat_db' = dat_db
                          ELSE IF prubeh = "vyjimka_potom"
                          THEN /\ DatReturn20(hlava \o
                                    <<ZpravaDat("chyba_vypocet_zz", soubor, 0)>>)
                               /\ dat_db' = po_insert
                          ELSE /\ DatDale(hlava \o
                                    <<ZpravaDat("import_dokoncen", soubor, 0)>>,
                                    dalsi)
                               /\ dat_db' = po_insert
    /\ UNCHANGED <<mimo_dat, dat_config, dat_vstup, dat_plochy, dat_db_pred>>

DatVz == DatVlozeni("vz", "vz", "pno")

DatPno == DatVlozeni("pno", "pno", "navrat")

\* return(vysledek)
DatNavrat ==
    /\ dat_pc = "navrat"
    /\ dat_pc' = "konec"
    /\ dat_navrat' = <<0>>
    /\ UNCHANGED <<mimo_dat, protokol, dat_config, dat_vstup, dat_plochy,
                   dat_db, dat_db_pred>>

NextDat ==
    \/ DatMazaniVz
    \/ DatMazaniPno
    \/ DatIp
    \/ DatVz
    \/ DatPno
    \/ DatNavrat

SpecDat == InitDat /\ [][NextDat]_vars

(***************************************************************************)
(* spi.vyskovy_model                                                       *)
(***************************************************************************)
\* vypocet_config['vyskovy_model']['zdroj_vysek']: the three sources the
\* step knows and another value.
ZdrojeVysek == {"import_vz", "import_modelu", "vypocet", "jiny"}

\* The trees (kmen) of the sample.
Kmeny == {1}

RtKody == {"r1", "r2"}

\* What ModelVysek.zpracuj_data gives for the frame of a group: a frame
\* with the model heights, (None, None), or an exception.
VysledkyModelu == {"model", "bez_modelu", "raise"}

\* The species groups (df_dr['rt']) with the trees the query of a group
\* returns and with what zpracuj_data gives for them.
RuzneRt(s) == \A i, j \in DOMAIN s : i # j => s[i].rt # s[j].rt

VmSkupiny ==
    {s \in UNION {[1..n -> [rt : RtKody, radky : SUBSET Kmeny,
                            vysledek : VysledkyModelu]] :
                     n \in 0..Cardinality(RtKody)} : RuzneRt(s)}

\* The configuration of the step and of the database: the height source,
\* lhc_config['opakovana_inventarizace'], and whether dsuhul.mod_vys and
\* dsuhul.mod_vys_pred refuse a row they already hold (their definition is
\* not part of the program).
VmConfigy ==
    [zdroj_vysek : ZdrojeVysek, opakovana_inventarizace : BOOLEAN,
     unikatni_klic : BOOLEAN]

\* vstup.f_<ico>_input_mod_vys and _input_mod_vys_pred.
VmVstupy == [mod_vys : SUBSET Kmeny, mod_vys_pred : SUBSET Kmeny]

\* inventarizace: 'aktuální', and 'předchozí' for a repeated inventory.
Inventarizace(cfg) ==
    IF cfg.opakovana_inventarizace THEN <<"mod_vys", "mod_vys_pred">>
    ELSE <<"mod_vys">>

\* A row of dsuhul.mod_vys / mod_vys_pred.
RadekModVys(skupina, kmen) == <<skupina, kmen>>

PrazdnyModVys == [mod_vys |-> EmptyBag, mod_vys_pred |-> EmptyBag]

\* delete from dsuhul.mod_vys where uid_lhp = ...; insert into
\* dsuhul.mod_vys ... select ... from the staging table.
SmazAVloz(tabulka, radky) == SetToBag(radky)

\* model_df.to_sql(..., if_exists='append')
ToSqlAppend(tabulka, radky) == tabulka (+) SetToBag(radky)

mimo_vm ==
    <<beh_vars, check_vars, import_vars, model_vars, lhp_vars, dat_vars>>

InitVm ==
    /\ BehVKroku
    /\ CheckKlid
    /\ ImportKlid
    /\ ModelKlid
    /\ LhpKlid
    /\ DatKlid
    /\ vm_config \in VmConfigy
    /\ vm_vstup \in VmVstupy
    /\ vm_skupiny \in VmSkupiny
    /\ vm_db = PrazdnyModVys
    /\ vm_pc = "zacatek"
    /\ vm_inv = 0
    /\ vm_rt = 0
    /\ vm_beh = 1
    /\ vm_konce = <<>>

\* The run of the step ends: by return(n) or by an exception.
VmKonec(jak, n) ==
    /\ vm_pc' = "konec"
    /\ vm_inv' = 0
    /\ vm_rt' = 0
    /\ vm_konce' = Append(vm_konce, [jak |-> jak, navrat |-> n, db |-> vm_db'])

\* zdroj_vysek == 'import_vz': nothing is generated.
VmImportVz ==
    /\ vm_pc = "zacatek"
    /\ vm_config.zdroj_vysek = "import_vz"
    /\ vm_pc' = "kontrola"
    /\ UNCHANGED <<mimo_vm, vm_config, vm_vstup, vm_skupiny, vm_db, vm_inv,
                   vm_rt, vm_beh, vm_konce>>

\* zdroj_vysek == 'import_modelu': both tables are emptied for the LHP and
\* filled from the staging tables.
VmImportModelu ==
    /\ vm_pc = "zacatek"
    /\ vm_config.zdroj_vysek = "import_modelu"
    /\ vm_db' = [mod_vys |->
                    SmazAVloz(vm_db.mod_vys,
                              {RadekModVys("import", k) :
                                  k \in vm_vstup.mod_vys}),
                 mod_vys_pred |->
                    SmazAVloz(vm_db.mod_vys_pred,
                              {RadekModVys("import", k) :
                                  k \in vm_vstup.mod_vys_pred})]
    /\ vm_pc' = "kontrola"
    /\ UNCHANGED <<mimo_vm, vm_config, vm_vstup, vm_skupiny, vm_inv, vm_rt,
                   vm_beh, vm_konce>>

\* zdroj_vysek == 'vypocet': the loops over the inventories and the
\* species groups start.
VmVypocet ==
    /\ vm_pc = "zacatek"
    /\ vm_config.zdroj_vysek = "vypocet"
    /\ vm_pc' = "skupina"
    /\ vm_inv' = 1
    /\ vm_rt' = 1
    /\ UNCHANGED <<mimo_vm, vm_config, vm_vstup, vm_skupiny, vm_db, vm_beh,
                   vm_konce>>

\* One group of one inventory: with rows, zpracuj_data is called; without a
\* model the step returns 20, with one the frame is appended to the table
\* of the inventory, which a table with a unique key refuses for a row it
\* holds.
VmSkupina ==
    /\ vm_pc = "skupina"
    /\ vm_rt \in DOMAIN vm_skupiny
    /\ LET skupina == vm_skupiny[vm_rt]
           tabulka == Inventarizace(vm_config)[vm_inv]
           model_df == {RadekModVys(skupina.rt, k) : k \in skupina.radky}
       IN  IF skupina.radky = {}
           THEN /\ vm_rt' = vm_rt + 1
                /\ UNCHANGED <<vm_db, vm_pc, vm_inv, vm_konce>>
           ELSE IF skupina.vysledek = "raise"
           THEN /\ vm_db' = vm_db
                /\ VmKonec("raise", 0)
           ELSE IF skupina.vysledek = "bez_modelu"
           THEN /\ vm_db' = vm_db
                /\ VmKonec("return", 20)
           ELSE IF /\ vm_config.unikatni_klic
                   /\ \E r \in model_df : BagIn(r, vm_db[tabulka])
           THEN /\ vm_db' = vm_db
                /\ VmKonec("raise", 0)
           ELSE /\ vm_db' = [vm_db EXCEPT
                                ![tabulka] = ToSqlAppend(@, model_df)]
                /\ vm_rt' = vm_rt + 1
                /\ UNCHANGED <<vm_pc, vm_inv, vm_konce>>
    /\ UNCHANGED <<mimo_vm, vm_config, vm_vstup, vm_skupiny, vm_beh>>

\* The groups of an inventory are done: the next inventory, or the end of
\* the branch with vysky_vypocteny = 1.
VmDalsiInventarizace ==
    /\ vm_pc = "skupina"
    /\ vm_rt = Len(vm_skupiny) + 1
    /\ IF vm_inv < Len(Inventarizace(vm_config))
       THEN /\ vm_inv' = vm_inv + 1
            /\ vm_rt' = 1
            /\ vm_pc' = vm_pc
       ELSE /\ vm_inv' = 0
            /\ vm_rt' = 0
            /\ vm_pc' = "kontrola"
    /\ UNCHANGED <<mimo_vm, vm_config, vm_vstup, vm_skupiny, vm_db, vm_beh,
                   vm_konce>>

\* if vysky_vypocteny == 0: "Chybný zdroj výšek", return(20).
VmChybnyZdroj ==
    /\ vm_pc = "zacatek"
    /\ vm_config.zdroj_vysek
          \notin {"import_vz", "import_modelu", "vypocet"}
    /\ vm_db' = vm_db
    /\ VmKonec("return", 20)
    /\ UNCHANGED <<mimo_vm, vm_config, vm_vstup, vm_skupiny, vm_beh>>

\* The model heights are copied to the sample trees when configured so and
\* the sample trees without a model height are counted: return(10) when
\* there are any, else return(0). Neither writes to the two tables.
VmKontrola ==
    /\ vm_pc = "kontrola"
    /\ vm_db' = vm_db
    /\ \E chybi \in BOOLEAN : VmKonec("return", IF chybi THEN 10 ELSE 0)
    /\ UNCHANGED <<mimo_vm, vm_config, vm_vstup, vm_skupiny, vm_beh>>

\* The step is run again with the same configuration and data.
VmDalsiBeh ==
    /\ vm_pc = "konec"
    /\ vm_beh < NBehu
    /\ vm_beh' = vm_beh + 1
    /\ vm_pc' = "zacatek"
    /\ UNCHANGED <<mimo_vm, vm_config, vm_vstup, vm_skupiny, vm_db, vm_inv,
                   vm_rt, vm_konce>>

NextVm ==
    \/ VmImportVz
    \/ VmImportModelu
    \/ VmVypocet
    \/ VmSkupina
    \/ VmDalsiInventarizace
    \/ VmChybnyZdroj
    \/ VmKontrola
    \/ VmDalsiBeh

SpecVm == InitVm /\ [][NextVm]_vars


(***************************************************************************)
(* Vocabulary of the properties                                            *)
(***************************************************************************)
\* Step k is enabled: its key path resolves, and to a truthy value.
Povolen(k) ==
    /\ KonfigHodnota(k).chyba = ""
    /\ Truthy(KonfigHodnota(k).hodnota)

\* Some segment of the key path of step k is absent from the configuration:
\* the key is missing, or what was reached before it is no mapping.
RECURSIVE SegmentChybi(_, _)
SegmentChybi(hodnota, klice) ==
    IF klice = <<>> THEN FALSE
    ELSE IF hodnota.typ # "dict" THEN TRUE
    ELSE IF Head(klice) \notin DOMAIN hodnota.d THEN TRUE
    ELSE SegmentChybi(hodnota.d[Head(klice)], Tail(klice))

\* The run configuration has a 'nastaveni_vypoctu' mapping to read the
\* flag from.
NastaveniJeMapa ==
    /\ "nastaveni_vypoctu" \in DOMAIN vypocet_config.d
    /\ vypocet_config.d["nastaveni_vypoctu"].typ = "dict"

\* The flag 'ignorovat_varovani' is present and true.
VarovaniIgnorovatelna ==
    /\ NastaveniJeMapa
    /\ LET n == vypocet_config.d["nastaveni_vypoctu"].d
       IN  /\ "ignorovat_varovani" \in DOMAIN n
           /\ n["ignorovat_varovani"] = PyBool(TRUE)

\* The flag 'ignorovat_varovani' is false or absent.
VarovaniNeignorovatelna ==
    /\ NastaveniJeMapa
    /\ LET n == vypocet_config.d["nastaveni_vypoctu"].d
       IN  \/ "ignorovat_varovani" \notin DOMAIN n
           \/ n["ignorovat_varovani"] = PyBool(FALSE)

\* The p-th invocation of a step method returned the integer n / raised.
Vratil(p, n) ==
    /\ volano[p].vystup.druh = "return"
    /\ volano[p].vystup.hodnota = PyInt(n)

Vyhodil(p) == volano[p].vystup.druh = "raise"

\* A line of that kind, for that step, is in the protocol.
Zapsano(typ, k) == \E i \in 1..Len(protokol) : protokol[i] = Zprava(typ, k)

\* The lines zpravy directly follow the start marker of step k.
NasledujePoStartu(k, zpravy) ==
    \E i \in 1..Len(protokol) :
        /\ protokol[i] = Zprava("start", k)
        /\ i + Len(zpravy) <= Len(protokol)
        /\ SubSeq(protokol, i + 1, i + Len(zpravy)) = zpravy

\* The loop of vypocet has stopped.
Zastaveno == pc # "vypocet"

\* The p-th invocation is the last one and the loop has stopped.
ZadnyDalsiKrok(p) == p = Len(volano) /\ Zastaveno

\* After step k the loop went on to the next step of the registry: it is
\* at step k+1, or step k+1 has left its trace (start marker, "not
\* performed" line, or the fault of its key path).
DalsiKrokZpracovan(k) ==
    /\ krok >= k + 1
    /\ (k < NKroku /\ (krok > k + 1 \/ Zastaveno))
         => \/ Zapsano("start", k + 1)
            \/ Zapsano("nebylo_provadeno", k + 1)
            \/ vyjimka # ""

C1_WitnessStop ==
    \E p \in 1..Len(volano) :
        /\ Vratil(p, 10)
        /\ VarovaniNeignorovatelna
        /\ volano[p].krok < NKroku
        /\ Povolen(volano[p].krok + 1)
        /\ pc = "konec"

(***************************************************************************)
(* C2: when an enabled step returns a value other than 0 or 10 (20, None,  *)
(* another code), "ukonceno s chybou" and "Zpracovani ukonceno" are logged *)
(* and no later step method is invoked, whatever the ignore flag is.       *)
(***************************************************************************)
C2_ChybaUkonciBeh ==
    \A p \in 1..Len(volano) :
        (volano[p].vystup.druh = "return" /\ ~Vratil(p, 0) /\ ~Vratil(p, 10)) =>
            LET k == volano[p].krok
            IN  /\ NasledujePoStartu(k, <<Zprava("ukonceno_s_chybou", k),
                                          Zprava("zpracovani_ukonceno", 0)>>)
                /\ ZadnyDalsiKrok(p)

\* A step returned None with warnings ignorable and an enabled step after it.
C2_Witness ==
    \E p \in 1..Len(volano) :
        /\ volano[p].vystup = [druh |-> "return", hodnota |-> PyNone]
        /\ VarovaniIgnorovatelna
        /\ volano[p].krok < NKroku
        /\ Povolen(volano[p].krok + 1)
        /\ pc = "konec"

\* The last invoked step stopped the run: it raised, returned a code other
\* than 0 and 10, or returned 10 while warnings are not ignorable.
BehZastavenKrokem ==
    /\ volano # <<>>
    /\ LET p == Len(volano)
       IN  \/ Vyhodil(p)
           \/ volano[p].vystup.druh = "return" /\ ~Vratil(p, 0) /\ ~Vratil(p, 10)
           \/ Vratil(p, 10) /\ ~VarovaniIgnorovatelna

(***************************************************************************)
(* C3: the exit status of the process is 0 when every step was processed   *)
(* without stopping, and 1 when the run was stopped by an unresolved       *)
(* warning or by a failed step (20, other code, caught fault).             *)
(***************************************************************************)
C3_ExitStatus ==
    pc = "konec" =>
        /\ (krok = NKroku + 1) => exit_status = <<0>>
        /\ (krok <= NKroku /\ BehZastavenKrokem) => exit_status = <<1>>

(***************************************************************************)
(* C4: a fault raised by the method of an enabled step is caught inside    *)
(* vypocet (nothing propagates), it is written to the protocol with its    *)
(* trace, no later step method is invoked, and the protocol file is closed *)
(* when the process has ended.                                             *)
(***************************************************************************)
C4_VyjimkaKrokuZachycena ==
    \A p \in 1..Len(volano) :
        Vyhodil(p) =>
            LET k == volano[p].krok
            IN  /\ vyjimka = ""
                /\ NasledujePoStartu(k, <<Zprava("chyba_pri_volani_metody_se_stopou", k)>>)
                /\ ZadnyDalsiKrok(p)
                /\ pc = "konec" => protokol_file = "closed"

\* The process has ended after a step raised while a later step was enabled.
C4_Witness ==
    /\ pc = "konec"
    /\ volano # <<>>
    /\ Vyhodil(Len(volano))
    /\ volano[Len(volano)].krok < NKroku
    /\ Povolen(volano[Len(volano)].krok + 1)

(***************************************************************************)
(* C5: a step that raises is handled exactly like a step that returns 20:  *)
(* the lines after its start marker and the value vypocet returns are      *)
(* those of the run in which that step returns 20.                         *)
(***************************************************************************)
C5_VyjimkaJako20 ==
    \A p \in 1..Len(volano) :
        Vyhodil(p) =>
            LET k == volano[p].krok
                jako20 == ZpracovaniVysledku(k, PyInt(20))
            IN  /\ NasledujePoStartu(k, jako20.zpravy)
                /\ navrat = jako20.navrat

(***************************************************************************)
(* C6: a step whose gating value resolves to a falsy or missing value      *)
(* writes exactly one line, "nebylo provadeno", its method is not invoked, *)
(* the loop advances to the next step and nothing else changes.            *)
(***************************************************************************)
C6_VypnutyKrok ==
    [][(/\ pc = "vypocet"
        /\ krok \in 1..NKroku
        /\ KonfigHodnota(krok).chyba = ""
        /\ ~Truthy(KonfigHodnota(krok).hodnota))
       => /\ protokol' = Append(protokol, Zprava("nebylo_provadeno", krok))
          /\ volano' = volano
          /\ krok' = krok + 1
          /\ UNCHANGED <<mimo_beh, vstupy, pc, protokol_file, spojeni, pg_engine,
                         navrat, vyjimka, exit_status>>]_vars

\* A disabled step has just been passed, between two enabled ones.
C6_Witness ==
    /\ pc = "vypocet"
    /\ krok \in 3..NKroku
    /\ Povolen(krok)
    /\ ~Povolen(krok - 1)
    /\ protokol[Len(protokol)] = Zprava("nebylo_provadeno", krok - 1)
    /\ volano # <<>>

(***************************************************************************)
(* C7: when a segment of the dotted key path of a step is absent (at any   *)
(* depth, also when an earlier segment resolves to a scalar or an empty    *)
(* value instead of a mapping), the step is disabled and no error is       *)
(* raised.                                                                 *)
(***************************************************************************)
C7_ChybejiciSegmentVypina ==
    \A k \in 1..NKroku :
        (/\ SegmentChybi(vypocet_config, kroky_config[k].konfig_klic)
         /\ (krok > k \/ (krok = k /\ Zastaveno)))
        => /\ Zapsano("nebylo_provadeno", k)
           /\ krok = k => vyjimka = ""

(***************************************************************************)
(* C8: step methods are invoked in the order of the registry, each at most *)
(* once, and a step method is invoked only if every earlier enabled step   *)
(* returned 0, or returned 10 with warnings ignorable.                     *)
(***************************************************************************)
C8_PoradiKroku ==
    \A p \in 1..Len(volano) :
        /\ \A q \in 1..(p - 1) : volano[q].krok < volano[p].krok
        /\ \A j \in 1..(volano[p].krok - 1) :
               Povolen(j) =>
                   \E q \in 1..(p - 1) :
                       /\ volano[q].krok = j
                       /\ \/ Vratil(q, 0)
                          \/ Vratil(q, 10) /\ VarovaniIgnorovatelna

\* Every step of the registry was invoked, the first ended with a warning.
C8_Witness ==
    /\ Len(volano) = NKroku
    /\ Vratil(1, 10)
    /\ Vratil(2, 0)

(***************************************************************************)
(* C9: on every exit path of a run through the context manager the         *)
(* protocol file ends up closed, the closing message is its last line, and *)
(* nothing is written once it is closed.                                   *)
(***************************************************************************)
C9_ProtokolUzavren ==
    /\ [](pc \in {"sys_exit", "konec"} =>
            /\ protokol_file = "closed"
            /\ protokol[Len(protokol)] = Zprava("uzavreni_protokolu", 0))
    /\ [][protokol_file = "closed" =>
            (protokol' = protokol /\ protokol_file' = "closed")]_vars

\* The process has ended on the path of a fault propagating out of vypocet.
C9_Witness ==
    /\ pc = "konec"
    /\ vyjimka # ""
    /\ protokol_file = "closed"

(***************************************************************************)
(* C10: the connection pg_conn opened in __init__ is held open during the  *)
(* run and is released when the context manager exits, on every exit path. *)
(***************************************************************************)
C10_SpojeniUvolneno ==
    /\ pc \in {"vypocet", "exit"} => spojeni["pg_conn"] = "open"
    /\ pc \in {"sys_exit", "konec"} => spojeni["pg_conn"] = "closed"

(***************************************************************************)
(* C11: a fault raised in vypocet outside the guarded invocation of a step *)
(* (while the configuration key of a step is resolved, or while the        *)
(* ignore-warnings setting is read) is written to the protocol before the  *)
(* protocol is closed, and the process ends with a non-zero exit status.   *)
(***************************************************************************)
ChybaZapsanaPredUzavrenim ==
    \E i \in 1..Len(protokol) :
        /\ protokol[i] = Zprava("vypocet_ukoncen_chybou", 0)
        /\ \E j \in (i + 1)..Len(protokol) :
               protokol[j] = Zprava("uzavreni_protokolu", 0)

C11_ChybaMimoKrokZapsana ==
    vyjimka # "" =>
        /\ protokol_file = "closed" => ChybaZapsanaPredUzavrenim
        /\ pc = "konec" => /\ exit_status # <<>>
                           /\ exit_status[1] # 0

\* The process has ended after a fault raised while the ignore-warnings
\* setting was read for a step that returned 10.
C11_Witness ==
    /\ pc = "konec"
    /\ vyjimka # ""
    /\ volano # <<>>
    /\ volano[Len(volano)].vystup.druh = "return"
    /\ PyEqInt(volano[Len(volano)].vystup.hodnota, 10)
    /\ protokol_file = "closed"

\* The process has ended after a fault raised while a key path was resolved.
C11_WitnessKlic ==
    /\ pc = "konec"
    /\ vyjimka # ""
    /\ volano = <<>>
    /\ krok >= 1

(***************************************************************************)
(* C13: the check built by check_range_or_zero(min, max) accepts a value   *)
(* exactly when the value is 0 or lies between min and max, both limits    *)
(* included.                                                               *)
(***************************************************************************)
C13_RozsahNeboNula ==
    check_vysledek # <<>> =>
        (check_vysledek[1] = TRUE
            <=> (x = 0 \/ (min_val <= x /\ x <= max_val)))

\* Zero was accepted although it lies outside the range.
C13_Witness ==
    /\ check_vysledek = <<TRUE>>
    /\ x = 0
    /\ min_val > 0
    /\ min_val <= max_val

\* A value on a limit was accepted, a value just outside was rejected.
C13_WitnessMez ==
    /\ check_vysledek = <<FALSE>>
    /\ x = max_val + 1
    /\ min_val <= max_val

(***************************************************************************)
(* Vocabulary of the claims about import_csv_dat                           *)
(***************************************************************************)
\* The loop body has just run the schema branch for the file imp_soubor.
SchemaPouzito ==
    /\ imp_soubor # ""
    /\ GetSchema(imp_soubor) # <<>>
    /\ imp_soubor \in tabulky
    /\ Len(df_validace) = Len(df_nacteny)

PravidloSloupce(c) == GetSchema(imp_soubor)[1].pravidla[c]

SloupceSchematu == DOMAIN GetSchema(imp_soubor)[1].pravidla

\* The protocol holds the count line with n problems for the file, followed
\* by the listing of the failure cases.
ChybyZapsany(soubor, n) ==
    \E i \in 1..(Len(protokol) - 1) :
        /\ protokol[i] = ZpravaImportu("chyby_ve_validaci", soubor, n)
        /\ protokol[i + 1] = ZpravaImportu("vypis_chyb", soubor, n)

\* The cells of a frame that break the rule of their column: a missing
\* value where none is allowed, or a value its check rejects.
Poruseni(df) ==
    {rc \in (DOMAIN df) \X SloupceSchematu :
        LET v == df[rc[1]][rc[2]]
            p == PravidloSloupce(rc[2])
        IN  \/ v = NaN /\ ~p.nullable
            \/ v # NaN /\ ~SplnujeCheck(p.check, v)}

\* A cell that cannot be converted to the declared type of its column: a
\* string that is no number in an Int or Float column.
Neprevoditelna(dtype, v) ==
    /\ dtype \in {"Int", "Float"}
    /\ v.typ = "str"
    /\ v.s \notin DOMAIN CiselneRetezce

(***************************************************************************)
(* C12: rows that break the constraints of their columns never make        *)
(* import_csv_dat fatal by themselves: the failures are logged (the count  *)
(* and the listing), the frame is still written to the database and the    *)
(* result of the step is 10, not 20; 20 comes only from a missing file.    *)
(***************************************************************************)
C12_PoruseniNeniFatalni ==
    /\ failure_cases # <<>> =>
          /\ ChybyZapsany(imp_soubor, Len(failure_cases))
          /\ imp_soubor \in tabulky
          /\ df_ulozeny = df_validace
          /\ imp_vysledek = 10
          /\ imp_navrat \in {<<>>, <<10>>}
    /\ imp_navrat # <<>> =>
          /\ imp_navrat[1] \in {0, 10, 20}
          /\ imp_navrat[1] = 20 =>
                protokol[Len(protokol)].typ = "neexistuje"
          /\ (imp_navrat[1] # 20 /\ imp_vysledek = 10) => imp_navrat[1] = 10

\* The step has returned 10 after the frame of its last file failed the
\* validation and was written to the database.
C12_Witness ==
    /\ imp_navrat = <<10>>
    /\ failure_cases # <<>>
    /\ imp_soubor \in tabulky
    /\ df_ulozeny # <<>>

C15_VychoziPredValidaci ==
    SchemaPouzito =>
        \A c \in SloupceSchematu :
            (~PravidloSloupce(c).nullable
             /\ PravidloSloupce(c).default # BezDefault) =>
                /\ \A r \in DOMAIN df_nacteny :
                      df_nacteny[r][c] = NaN =>
                          df_validace[r][c] = PravidloSloupce(c).default[1]
                /\ \A i \in DOMAIN failure_cases :
                      failure_cases[i].sloupec = c =>
                          failure_cases[i].check # "not_nullable"

\* A frame with a missing value in a non-nullable string column with a
\* default and in a non-nullable integer column with a default was handed
\* to the validation.
C15_Witness ==
    /\ SchemaPouzito
    /\ imp_soubor = "ip"
    /\ \E r \in DOMAIN df_nacteny : df_nacteny[r]["status"] = NaN
    /\ \E r \in DOMAIN df_nacteny : df_nacteny[r]["cil_zasoba"] = NaN

(***************************************************************************)
(* C16: when a value of a column cannot be converted to the declared type  *)
(* of the column, the failure is logged and the original value is left in  *)
(* the row; it is never silently replaced by another value or dropped.     *)
(***************************************************************************)
C16_NeprevoditelnaZustava ==
    SchemaPouzito =>
        \A r \in DOMAIN df_nacteny : \A c \in SloupceSchematu :
            Neprevoditelna(PravidloSloupce(c).dtype, df_nacteny[r][c]) =>
                /\ df_ulozeny[r][c] = df_nacteny[r][c]
                /\ \E i \in DOMAIN protokol :
                      /\ protokol[i].typ = "chyba_prevodu"
                      /\ protokol[i].soubor = imp_soubor

(***************************************************************************)
(* Vocabulary of the claims about ModelVysek                               *)
(***************************************************************************)
\* srovnej_funkce was entered and has tried every candidate.
SrovnaniDokonceno ==
    /\ mv_nazev_funkce = ""
    /\ mv_k = Len(NazvyFunkci) + 1
    /\ Len(volani_fitu) = Len(NazvyFunkci)

\* The i-th call of fituj_funkci reached the optimizer and the optimizer
\* did not converge.
Nekonvergoval(i) ==
    /\ volani_fitu[i].funkce \in Funkce
    /\ Len(volani_fitu[i].vzorek.vyska) >= 2
    /\ ~volani_fitu[i].opt.konverguje

\* The i-th call of fituj_funkci returned parameters and scores.
Uspesne(i) ==
    /\ volani_fitu[i].chyba = ""
    /\ volani_fitu[i].navrat # Zadny

\* zpracuj_data returned a frame and the description of the model used.
ModelVytvoren ==
    /\ mv_vystup # Zadny
    /\ mv_vystup[1].info # Zadny

\* The rows of the input frame with a diameter and a positive height.
RadkySVyskou ==
    {r \in DOMAIN mv_df.radky :
        /\ mv_df.radky[r]["tloustka_km"] # NaN
        /\ mv_df.radky[r]["mvyska"] # NaN
        /\ mv_df.radky[r]["mvyska"].n > 0}

(***************************************************************************)
(* C17: after srovnej_funkce the retained best model is the successfully   *)
(* fitted candidate with the greatest R2; of several candidates with that  *)
(* same R2 the first in the order michajlov, korf, naslund, petersen is    *)
(* retained, whatever the RMSE of the candidates.                          *)
(***************************************************************************)
C17_NejlepsiPodleR2 ==
    SrovnaniDokonceno =>
        LET U == {i \in DOMAIN volani_fitu : Uspesne(i)}
        IN  U # {} =>
              \E i \in U :
                 /\ \A j \in U : volani_fitu[j].navrat[1].r2
                                    <= volani_fitu[i].navrat[1].r2
                 /\ \A j \in U : volani_fitu[j].navrat[1].r2
                                    = volani_fitu[i].navrat[1].r2 => i <= j
                 /\ volani_fitu[i].funkce = NazvyFunkci[i]
                 /\ nejlepsi.funkce = Nejaky(NazvyFunkci[i])
                 /\ nejlepsi.parametry
                       = Nejaky(volani_fitu[i].navrat[1].parametry)
                 /\ nejlepsi.r2 = Nejaky(volani_fitu[i].navrat[1].r2)
                 /\ nejlepsi.rmse = Nejaky(volani_fitu[i].navrat[1].rmse)

\* Two candidates reached the same greatest R2, the later one with the
\* smaller RMSE, and the earlier one was retained.
C17_Witness ==
    /\ SrovnaniDokonceno
    /\ \E i, j \in DOMAIN volani_fitu :
          /\ i < j
          /\ Uspesne(i)
          /\ Uspesne(j)
          /\ volani_fitu[i].navrat[1].r2 = MaxR2
          /\ volani_fitu[j].navrat[1].r2 = MaxR2
          /\ volani_fitu[j].navrat[1].rmse < volani_fitu[i].navrat[1].rmse
          /\ nejlepsi.funkce = Nejaky(NazvyFunkci[i])

(***************************************************************************)
(* C18: when the optimizer does not converge for a candidate, fituj_funkci *)
(* logs it and returns the failure value; srovnej_funkce keeps the         *)
(* candidate out of the comparison, still fits every remaining candidate,  *)
(* and is not aborted: with another candidate fitted, zpracuj_data returns *)
(* its model.                                                              *)
(***************************************************************************)
C18_NekonvergenceJeLokalni ==
    \A i \in DOMAIN volani_fitu :
        Nekonvergoval(i) =>
            /\ volani_fitu[i].chyba = ""
            /\ volani_fitu[i].navrat = Zadny
            /\ \E p \in DOMAIN protokol :
                  protokol[p] = ZpravaModelu("nepovedlo_se",
                                             volani_fitu[i].funkce, 0)
            /\ mv_nazev_funkce = "" =>
                  /\ \A v \in DOMAIN vysledky :
                        vysledky[v].funkce # volani_fitu[i].funkce
                  /\ nejlepsi.funkce # Nejaky(volani_fitu[i].funkce)
                  /\ \/ mv_pc = "srovnej_funkce" /\ mv_k = Len(volani_fitu) + 1
                     \/ mv_pc # "srovnej_funkce" /\ SrovnaniDokonceno
                  /\ (mv_pc # "srovnej_funkce"
                      /\ \E j \in DOMAIN volani_fitu : Uspesne(j)) =>
                        /\ mv_vyjimka = ""
                        /\ ModelVytvoren
                        /\ Nejaky(mv_vystup[1].info[1].funkce) = nejlepsi.funkce

\* The first candidate did not converge, a later one was fitted, and
\* zpracuj_data returned the model of a later candidate.
C18_Witness ==
    /\ SrovnaniDokonceno
    /\ Nekonvergoval(1)
    /\ \E j \in DOMAIN volani_fitu : Uspesne(j)
    /\ ModelVytvoren
    /\ mv_vyjimka = ""

(***************************************************************************)
(* C19: when every candidate function fails to fit for a group, the model  *)
(* selection yields no best function, and vyskovy_model returns 20.        *)
(***************************************************************************)
VsichniSelhali ==
    /\ SrovnaniDokonceno
    /\ \A i \in DOMAIN volani_fitu : Nekonvergoval(i)

C19_ZadnyModelVraci20 ==
    (VsichniSelhali /\ mv_pc = "vyskovy_model") =>
        /\ nejlepsi.funkce = Zadny
        /\ vm_stav = "return_20"

(***************************************************************************)
(* C20: zpracuj_data fits only on the records with a diameter and a        *)
(* positive observed height, writes a model height for every record with   *)
(* a diameter, the records left out of the fit included, and writes none   *)
(* for the records without a diameter.                                     *)
(***************************************************************************)
C20_VyskyProVsechnySDbh ==
    ModelVytvoren =>
        LET out == mv_vystup[1].df_vysledek[1]
            info == mv_vystup[1].info[1]
        IN  /\ \A i \in DOMAIN volani_fitu :
                  LET vz == volani_fitu[i].vzorek
                  IN  /\ Len(vz.dbh) = Cardinality(RadkySVyskou)
                      /\ Len(vz.vyska) = Len(vz.dbh)
                      /\ \A k \in DOMAIN vz.dbh :
                            \E r \in RadkySVyskou :
                               /\ mv_df.radky[r]["tloustka_km"].n = vz.dbh[k]
                               /\ mv_df.radky[r]["mvyska"].n = vz.vyska[k]
            /\ \A r \in DOMAIN mv_df.radky :
                  IF mv_df.radky[r]["tloustka_km"] # NaN
                  THEN out.radky[r]["mod_vys"]
                          = ModelovaVyska(info.funkce, info.parametry,
                                          mv_df.radky[r]["tloustka_km"].n)
                  ELSE out.radky[r]["mod_vys"] = NaN

\* A record with a diameter and no positive height was left out of the
\* fit and has a model height.
C20_Witness ==
    /\ ModelVytvoren
    /\ \E r \in DOMAIN mv_df.radky :
          /\ r \notin RadkySVyskou
          /\ mv_df.radky[r]["tloustka_km"] # NaN
          /\ mv_vystup[1].df_vysledek[1].radky[r]["mod_vys"] # NaN

\* A record without a diameter has no model height.
C20_WitnessBezDbh ==
    /\ ModelVytvoren
    /\ \E r \in DOMAIN mv_df.radky :
          /\ mv_df.radky[r]["tloustka_km"] = NaN
          /\ mv_vystup[1].df_vysledek[1].radky[r]["mod_vys"] = NaN

(***************************************************************************)
(* More vocabulary of the claims about ModelVysek                          *)
(***************************************************************************)
\* zpracuj_data has ended (returned or raised) for a frame with the
\* diameter column.
ZpracovaniSkonceno ==
    /\ mv_pc \in {"hotovo", "vyskovy_model"}
    /\ "tloustka_km" \in mv_df.sloupce

\* The number of complete (diameter, height) pairs of the frame.
PocetKompletnich == Cardinality(RadkySVyskou)

\* The optimizer converged in every call of fituj_funkci that reached it.
VseKonvergovalo ==
    \A i \in DOMAIN volani_fitu : ~Nekonvergoval(i)

(***************************************************************************)
(* C21: for a frame with fewer than 10 complete (diameter, height) pairs,  *)
(* for every count from 0 on, zpracuj_data logs the reliability warning    *)
(* and still fits and returns a model: the small sample alone causes no    *)
(* fault.                                                                  *)
(***************************************************************************)
C21_MalyVzorekJenVaruje ==
    (ZpracovaniSkonceno
     /\ mv_nazev_funkce = ""
     /\ PocetKompletnich < 10
     /\ VseKonvergovalo) =>
        /\ \E p \in DOMAIN protokol :
              protokol[p] = ZpravaModelu("varovani_malo_stromu", "",
                                         PocetKompletnich)
        /\ mv_vyjimka = ""
        /\ ModelVytvoren

(***************************************************************************)
(* C24: modeluj_vysky called without a function argument selects the best  *)
(* candidate automatically: every candidate is fitted and the function and *)
(* parameters returned are the retained best ones, as zpracuj_data with no *)
(* explicit function gives them on the same data.                          *)
(***************************************************************************)
C24_BezFunkceVybiraNejlepsi ==
    (ZpracovaniSkonceno
     /\ mv_nazev_funkce = NazevNone
     /\ PocetKompletnich >= 2
     /\ VseKonvergovalo) =>
        /\ mv_vyjimka = ""
        /\ ModelVytvoren
        /\ Len(volani_fitu) = Len(NazvyFunkci)
        /\ Nejaky(mv_vystup[1].info[1].funkce) = nejlepsi.funkce
        /\ Nejaky(mv_vystup[1].info[1].parametry) = nejlepsi.parametry

(***************************************************************************)
(* C25: with an explicit registered function zpracuj_data fits only that   *)
(* candidate and returns its name with the fitted parameters, R2 and RMSE, *)
(* with the plot preview and without it; an unregistered name is logged    *)
(* and gives a failure value, not a fault.                                 *)
(***************************************************************************)
C25_ExplicitniFunkce ==
    ZpracovaniSkonceno =>
        /\ (mv_nazev_funkce \in Funkce
            /\ PocetKompletnich >= 2
            /\ VseKonvergovalo) =>
              /\ mv_vyjimka = ""
              /\ ModelVytvoren
              /\ Len(volani_fitu) = 1
              /\ volani_fitu[1].funkce = mv_nazev_funkce
              /\ mv_vystup[1].info[1].funkce = mv_nazev_funkce
              /\ mv_vystup[1].info[1].parametry = Parametry(mv_nazev_funkce)
              /\ mv_vystup[1].info[1].R2 = Nejaky(volani_fitu[1].opt.r2)
              /\ mv_vystup[1].info[1].RMSE = Nejaky(volani_fitu[1].opt.rmse)
        /\ (mv_nazev_funkce \notin Funkce \cup {"", NazevNone}) =>
              /\ \E p \in DOMAIN protokol :
                    protokol[p] = ZpravaModelu("neznama_funkce",
                                               mv_nazev_funkce, 0)
              /\ mv_vyjimka = ""
              /\ mv_vystup # Zadny
              /\ mv_vystup[1].info = Zadny

(***************************************************************************)
(* More vocabulary of the claims about import_csv_dat                      *)
(***************************************************************************)
\* The entries of import_csv.data with a truthy flag whose file is missing.
ChybejiciSoubory ==
    {i \in DOMAIN imp_data :
        imp_data[i].provadet /\ ~imp_data[i].existuje}

\* The entries the loop takes up: all of them, or those up to the first
\* enabled file that is missing.
Zpracovavane ==
    {i \in DOMAIN imp_data : \A m \in ChybejiciSoubory : i < m}

\* The protocol holds a line of the given kind for the file.
ZapsanoOSouboru(typ, soubor) ==
    \E p \in DOMAIN protokol :
        protokol[p].typ = typ /\ protokol[p].soubor = soubor

(***************************************************************************)
(* C30: the result of import_csv_dat is the highest severity over the      *)
(* enabled files in the order of the configuration: 20 at the first        *)
(* enabled file that is missing (no later file is taken up, the files      *)
(* before stay written), else 10 when a processed file had validation      *)
(* failures (a later clean file does not reset it), else 0; a file with a  *)
(* falsy flag is only logged as ignored.                                   *)
(***************************************************************************)
C30_NejvyssiZavaznost ==
    imp_navrat # <<>> =>
        /\ imp_navrat =
              IF ChybejiciSoubory # {} THEN <<20>>
              ELSE IF \E i \in DOMAIN imp_data :
                         /\ imp_data[i].provadet
                         /\ ZapsanoOSouboru("chyby_ve_validaci", imp_data[i].soubor)
                   THEN <<10>>
                   ELSE <<0>>
        /\ tabulky = {imp_data[i].soubor :
                         i \in {j \in Zpracovavane : imp_data[j].provadet}}
        /\ \A i \in DOMAIN imp_data :
              LET soubor == imp_data[i].soubor
              IN  /\ ZapsanoOSouboru("soubor", soubor) <=>
                        /\ imp_data[i].provadet
                        /\ i \in Zpracovavane \cup ChybejiciSoubory
                        /\ \A m \in ChybejiciSoubory : i <= m
                  /\ ZapsanoOSouboru("ignorovan", soubor) <=>
                        (~imp_data[i].provadet /\ i \in Zpracovavane)
                  /\ ~imp_data[i].provadet =>
                        \A p \in DOMAIN protokol :
                            protokol[p].soubor = soubor =>
                                protokol[p].typ = "ignorovan"

\* A file with validation failures is followed by a clean file and by an
\* ignored one, and the step has returned 10 with both frames written.
C30_Witness ==
    /\ imp_navrat = <<10>>
    /\ \E i, j, k \in DOMAIN imp_data :
          /\ i < j
          /\ ZapsanoOSouboru("chyby_ve_validaci", imp_data[i].soubor)
          /\ ZapsanoOSouboru("validovano", imp_data[j].soubor)
          /\ ZapsanoOSouboru("ignorovan", imp_data[k].soubor)
          /\ {imp_data[i].soubor, imp_data[j].soubor} \subseteq tabulky

\* An enabled file is missing after a file that was written: the step has
\* returned 20 and the earlier table is kept.
C30_WitnessChybi ==
    /\ imp_navrat = <<20>>
    /\ tabulky # {}
    /\ \E m \in ChybejiciSoubory : m < Len(imp_data)

(***************************************************************************)
(* Vocabulary of the claims about inicializace_lhp                         *)
(***************************************************************************)
\* Run b of the step has ended by return(vysledek).
BehVratil(b) ==
    /\ b \in DOMAIN lhp_konce
    /\ lhp_konce[b].jak = "return"

\* The number of rows every table had at the end of run b.
PoctyRadku(b) ==
    [t \in TabulkyLhp |-> Cardinality(lhp_konce[b].db[t])]

\* The reference tables: firm, LHC, LHP, sub-area types, management groups,
\* thickness classes, location configurations, strata, campaigns.
ReferencniTabulky ==
    {"firm", "lhc", "lhp", "pobl_typy", "pobl", "list_ktlt_types", "ktlt",
     "list_kil_types", "kil", "kip", "vs", "ik"}

(***************************************************************************)
(* C22: inicializace_lhp is idempotent: a run that follows a completed run *)
(* with the same configuration leaves every reference table with the       *)
(* number of rows the run before left; a row whose key exists is updated,  *)
(* never inserted again.                                                   *)
(***************************************************************************)
C22_DruhyBehNepridava ==
    \A b \in DOMAIN lhp_konce :
        (b > 1 /\ BehVratil(b - 1) /\ BehVratil(b)) =>
            \A t \in ReferencniTabulky \cup {"vs_spi"} :
                PoctyRadku(b)[t] = PoctyRadku(b - 1)[t]

\* Two runs have completed, with two location configurations of which the
\* last has a plot with a subplot, with a stratum and a campaign linked to
\* it, and every reference table has rows.
C22_Witness ==
    /\ BehVratil(1)
    /\ BehVratil(2)
    /\ Len(lhp_config.kil) = 2
    /\ \A t \in TabulkyLhp : db[t] # {}
    /\ Cardinality(db["firm"]) = 1

(***************************************************************************)
(* C26: every firm, LHC or LHP row that inicializace_lhp has inserted has  *)
(* its UID in the UID configuration file when the step ends, whichever way *)
(* it ends, a fault in a later statement included.                         *)
(***************************************************************************)
C26_UidZapsanoPriKonci ==
    lhp_pc = "konec" =>
        /\ \A uid \in db["firm"] :
              UidZnamy(uid_soubor, "uid_firm") /\ uid_soubor["uid_firm"] = uid
        /\ \A uid \in db["lhc"] :
              UidZnamy(uid_soubor, "uid_lhc") /\ uid_soubor["uid_lhc"] = uid
        /\ \A uid \in db["lhp"] :
              UidZnamy(uid_soubor, "uid_lhp") /\ uid_soubor["uid_lhp"] = uid

(***************************************************************************)
(* C27: after inicializace_lhp has completed, every plot and subplot of    *)
(* every location configuration of 'kil' is in the database, and so are    *)
(* the links to strata of every campaign of 'ik', not only those of the    *)
(* entry iterated last.                                                    *)
(***************************************************************************)
C27_VsechnyKonfiguraceAKampane ==
    (lhp_pc = "konec" /\ BehVratil(lhp_beh)) =>
        LET firm == uid_config["uid_firm"]
        IN  /\ \A i \in DOMAIN lhp_config.kil :
                  \A p \in lhp_config.kil[i].plochy :
                      LET uid_kil == <<firm, lhp_config.kil[i].kod>>
                          uid_ip == <<firm, uid_kil, p.plocha>>
                      IN  /\ uid_ip \in db["kil"]
                          /\ \A s \in p.podplochy :
                                <<firm, uid_kil, uid_ip, s>> \in db["kip"]
            /\ \A i \in DOMAIN lhp_config.ik :
                  LET kampan == lhp_config.ik[i]
                      uid_ik == RadekIk(uid_config, kampan)
                      cile == IF kampan.vs_all THEN lhp_config.vs
                              ELSE kampan.vs
                  IN  \A s \in cile :
                          RadekVsSpi(uid_config, uid_ik, s) \in db["vs_spi"]

(***************************************************************************)
(* Vocabulary of the claims about import_dat                               *)
(***************************************************************************)
DatSoubory == {"ip", "vz", "pno"}

\* The staging table of the dataset is to be processed and holds a row
\* whose plot (locality, plot number) the store lacks.
OdkazNaNeexistujici(soubor) ==
    /\ dat_config[soubor]
    /\ \E r \in dat_vstup[soubor] : r \notin dat_plochy

\* This invocation has updated or inserted no row of the dataset.
NicZapsano(soubor) ==
    IF soubor = "ip" THEN dat_db.ip = {}
    ELSE \A r \in dat_db[soubor] : r.puvod # "import"

\* The step has logged the failure of the referential check of a dataset.
KontrolaSelhala(soubor) ==
    \E p \in DOMAIN protokol :
        /\ protokol[p].typ = "chyba_neexistujici_ip"
        /\ protokol[p].soubor = soubor

(***************************************************************************)
(* C23: when the IP, VZ or PNO data to import holds a row that refers to a *)
(* plot (locality, plot number) the store lacks, import_dat returns 20 and *)
(* none of the rows of that dataset is inserted or updated.                *)
(***************************************************************************)
C23_NeexistujiciPlochaVraci20 ==
    dat_pc = "konec" =>
        \A soubor \in DatSoubory :
            OdkazNaNeexistujici(soubor) =>
                /\ dat_navrat = <<20>>
                /\ NicZapsano(soubor)

\* The VZ data hold a row of a plot the store has and a row of one it
\* lacks; IP was clean and has been updated, the check of VZ has failed and
\* the step has returned 20.
C23_Witness ==
    /\ dat_pc = "konec"
    /\ dat_navrat = <<20>>
    /\ OdkazNaNeexistujici("vz")
    /\ \E r \in dat_vstup.vz : r \in dat_plochy
    /\ KontrolaSelhala("vz")
    /\ dat_db.ip # {}

(***************************************************************************)
(* C28: when import_dat returns 20 because a referential check has failed, *)
(* the store is as it was when the step was invoked; the VZ and PNO rows   *)
(* of an earlier import are still there.                                   *)
(***************************************************************************)
C28_PriChybeOdkazuBezeZmeny ==
    (dat_navrat = <<20>> /\ \E soubor \in DatSoubory : KontrolaSelhala(soubor))
        => dat_db = dat_db_pred

(***************************************************************************)
(* Vocabulary of the claims about vyskovy_model                            *)
(***************************************************************************)
\* Run b of the step has ended by a return other than return(20).
VmDokoncen(b) ==
    /\ b \in DOMAIN vm_konce
    /\ vm_konce[b].jak = "return"
    /\ vm_konce[b].navrat # 20

\* The two tables before run b.
VmDbPred(b) == IF b = 1 THEN PrazdnyModVys ELSE vm_konce[b - 1].db

(***************************************************************************)
(* C29: vyskovy_model is idempotent: run a second time with the same       *)
(* configuration and data it leaves dsuhul.mod_vys and mod_vys_pred with   *)
(* the rows the first run left, with the heights imported and with the     *)
(* heights computed; with an unknown height source it returns 20 and       *)
(* leaves the tables as they were.                                         *)
(***************************************************************************)
C29_DruhyVypocetStejneRadky ==
    \A b \in DOMAIN vm_konce :
        /\ (b > 1 /\ VmDokoncen(b - 1) /\ VmDokoncen(b)) =>
              vm_konce[b].db = vm_konce[b - 1].db
        /\ vm_config.zdroj_vysek \notin {"import_vz", "import_modelu",
                                         "vypocet"} =>
              /\ vm_konce[b].jak = "return"
              /\ vm_konce[b].navrat = 20
              /\ vm_konce[b].db = VmDbPred(b)

====
